---- MODULE Spec2Model ----
(***************************************************************************)
(* Mutual Dissent: the debate orchestrator (run_debate, run_replay), the   *)
(* progress hook, and the web page's submit / abort handlers.              *)
(*                                                                         *)
(* One behaviour is one call: a fresh debate started by a library caller   *)
(* or by the web page, or a replay of a stored source transcript.  Every   *)
(* action is the code that runs between two suspension points (awaits) of  *)
(* the asyncio task.                                                       *)
(*                                                                         *)
(* Three components are also specified on their own, each with its own     *)
(* initial predicate and next-state relation: one provider client          *)
(* (ProviderSpec), the pricing cache with _compute_stats (PricingSpec) and *)
(* the transcript directory (StoreSpec).                                   *)
(***************************************************************************)
EXTENDS Integers, Sequences, FiniteSets, TLC

\* ------------------------------------------------------------------------
\* Bounds of the model
\* ------------------------------------------------------------------------
MaxPanel == 2
MaxFaults == 1
MaxSrcRounds == 2
MaxCalls == 3
MaxScopes == 2
MaxStatRounds == 2
IdLen == 9

\* ------------------------------------------------------------------------
\* Program constants
\* ------------------------------------------------------------------------
MAX_ROUNDS == 3
DEFAULT_ROUNDS == 1
ShortIdLen == 8
MinPrefixLen == 4
MaxAdditionalRounds == 3
DEFAULT_SYNTHESIZER == "claude"
DEFAULT_PANEL == <<"claude", "gpt", "gemini", "grok">>

None == "None"
Aliases == {"claude", "gpt"}
CallErrors == {"timeout"}
Outcomes == {"ok"} \cup CallErrors
FailingSlots == {1, 2}
NoContent == <<>>
Placeholder == <<-9>>
SrcRef == 1
NewRef == 2

\* ------------------------------------------------------------------------
\* Generic helpers
\* ------------------------------------------------------------------------
Min(a, b) == IF a < b THEN a ELSE b

Max(a, b) == IF a < b THEN b ELSE a

SeqsUpTo(S, n) == UNION {[1..k -> S] : k \in 0..n}

Last(s) == s[Len(s)]

\* ------------------------------------------------------------------------
\* models.py
\* ------------------------------------------------------------------------
ModelResponse(alias, rn, content, error) ==
    [model_id |-> <<>>, model_alias |-> alias, round_number |-> rn,
     content |-> content, error |-> error, role |-> "", routing |-> <<>>,
     analysis |-> <<>>]

DebateRound(rn, rtype, responses) ==
    [round_number |-> rn, round_type |-> rtype, responses |-> responses]

\* A DebateTranscript; `rounds` is a reference to a list object in `heap`,
\* so that two transcripts can share one list (Python aliasing).
\* Optional fields (Python None) are sequences of length at most one.
DebateTranscript(id, query, panel, synth, maxr, roundsRef, metadata) ==
    [transcript_id |-> id, query |-> query, panel |-> panel,
     synthesizer_id |-> synth, max_rounds |-> maxr, rounds |-> roundsRef,
     synthesis |-> <<>>, metadata |-> metadata]

Metadata(aborted) ==
    [aborted |-> aborted, scores |-> <<>>, source_transcript_id |-> <<>>,
     replay_config |-> <<>>, panelist_context |-> {}]

\* ------------------------------------------------------------------------
\* prompts.py and orchestrator._inject_context
\* ------------------------------------------------------------------------
Prompt(kind, own, others, rounds) ==
    [kind |-> kind, context |-> "", own |-> own, others |-> others,
     transcript |-> rounds]

format_initial(query) == Prompt("initial", NoContent, <<>>, <<>>)

format_reflection(query, own_text, others) ==
    Prompt("reflection", own_text, others, <<>>)

format_synthesis(query, formatted) == Prompt("synthesis", NoContent, <<>>, formatted)

\* panelist_context is the set of aliases that have a context string; the
\* empty mapping and None are both falsy and behave alike.
_inject_context(prompt, alias, panelist_context) ==
    IF panelist_context = {} THEN prompt
    ELSE IF alias \notin panelist_context THEN prompt
    ELSE [prompt EXCEPT !.context = alias]

Request(alias, prompt, rn) ==
    [alias_or_id |-> alias, prompt |-> prompt, model_alias |-> alias,
     round_number |-> rn]

\* ------------------------------------------------------------------------
\* orchestrator.py: request building
\* ------------------------------------------------------------------------
_run_initial_round_requests(query, panel_aliases, panelist_context) ==
    [i \in 1..Len(panel_aliases) |->
        Request(panel_aliases[i],
                _inject_context(format_initial(query), panel_aliases[i],
                                panelist_context),
                0)]

\* {r.model_alias: r for r in prev_responses}: a later response replaces an
\* earlier one with the same alias.
response_map_has(prev_responses, alias) ==
    \E i \in 1..Len(prev_responses) : prev_responses[i].model_alias = alias

\* the map keeping the first response of an alias
response_map_get_First(prev_responses, alias) ==
    prev_responses[CHOOSE i \in 1..Len(prev_responses) :
        /\ prev_responses[i].model_alias = alias
        /\ \A j \in 1..(i-1) : prev_responses[j].model_alias # alias]

response_map_get(prev_responses, alias) ==
    prev_responses[CHOOSE i \in 1..Len(prev_responses) :
        /\ prev_responses[i].model_alias = alias
        /\ \A j \in (i+1)..Len(prev_responses) :
               prev_responses[j].model_alias # alias]

\* own.content taken whether or not the response has an error
own_text_NoPlaceholder(prev_responses, alias) ==
    IF response_map_has(prev_responses, alias)
    THEN response_map_get(prev_responses, alias).content
    ELSE Placeholder

own_text(prev_responses, alias) ==
    IF /\ response_map_has(prev_responses, alias)
       /\ response_map_get(prev_responses, alias).error = None
    THEN response_map_get(prev_responses, alias).content
    ELSE Placeholder

RECURSIVE SurvivingPairs(_, _)
SurvivingPairs(responses, exclude) ==
    IF responses = <<>> THEN <<>>
    ELSE LET r == Head(responses)
             rest == SurvivingPairs(Tail(responses), exclude)
         IN  IF r.model_alias # exclude /\ r.error = None
             THEN <<(<<r.model_alias, r.content>>)>> \o rest
             ELSE rest

others(prev_responses, alias) == SurvivingPairs(prev_responses, alias)

RECURSIVE SurvivorIndexes(_, _, _)
SurvivorIndexes(panel_aliases, prev, i) ==
    IF i > Len(panel_aliases) THEN <<>>
    ELSE (IF i <= Len(prev) /\ prev[i].error # None THEN <<>> ELSE <<i>>)
         \o SurvivorIndexes(panel_aliases, prev, i + 1)

\* A reflection round that asks only the members whose previous call worked
_run_reflection_round_requests_DropFailed(query, panel_aliases, prev, rn, panelist_context) ==
    LET idx == SurvivorIndexes(panel_aliases, prev, 1)
    IN  [j \in 1..Len(idx) |->
            Request(panel_aliases[idx[j]],
                    _inject_context(
                        format_reflection(query,
                                          own_text(prev, panel_aliases[idx[j]]),
                                          others(prev, panel_aliases[idx[j]])),
                        panel_aliases[idx[j]], panelist_context),
                    rn)]

_run_reflection_round_requests(query, panel_aliases, prev, rn, panelist_context) ==
    [i \in 1..Len(panel_aliases) |->
        Request(panel_aliases[i],
                _inject_context(
                    format_reflection(query,
                                      own_text(prev, panel_aliases[i]),
                                      others(prev, panel_aliases[i])),
                    panel_aliases[i], panelist_context),
                rn)]

\* RoundSummary list built by _run_synthesis: every round in order, the
\* responses without error only (no alias is excluded: None never matches).
round_data(rounds) ==
    [k \in 1..Len(rounds) |->
        [round_type |-> rounds[k].round_type,
         responses |-> SurvivingPairs(rounds[k].responses, None)]]

_run_synthesis_request(query, synth_alias, rounds) ==
    Request(synth_alias, format_synthesis(query, round_data(rounds)), -1)

\* ------------------------------------------------------------------------
\* providers: one call and the parallel fan-out
\* ------------------------------------------------------------------------
\* Provider.complete: a reply, or an error-bearing response with empty
\* content.  The reply text is identified by the round and the panel slot.
ProviderComplete(req, slot, outcome) ==
    IF outcome = "ok"
    THEN ModelResponse(req.model_alias, req.round_number,
                       <<req.round_number, slot>>, None)
    ELSE ModelResponse(req.model_alias, req.round_number, NoContent, outcome)

\* asyncio.gather: resumes when every awaitable has finished ...
GatherDone(res) == \A i \in 1..Len(res) : res[i] # <<>>

\* ... and returns the results in the order of the awaitables, whatever
\* order they finished in.
RECURSIVE Gather(_, _)
Gather(res, order) ==
    IF res = <<>> THEN <<>> ELSE Head(res) \o Gather(Tail(res), order)

\* A fan-out that hands the responses back as they arrive
complete_parallel_AsCompleted(res, order) == [k \in 1..Len(order) |-> res[order[k]][1]]

\* ProviderRouter.complete_parallel: one response per request, input order.
complete_parallel(res, order) == Gather(res, order)

StampRole(responses, role) ==
    [i \in 1..Len(responses) |-> [responses[i] EXCEPT !.role = role]]

\* ------------------------------------------------------------------------
\* config.py and providers/router.py: routing policy, clients, dispatch
\* ------------------------------------------------------------------------
Modes == {"auto", "direct", "openrouter"}

\* Vendors whose key a configuration can hold besides the aggregator's.
Vendors == {"anthropic", "openai"}

\* Vendors for which a direct provider class exists.
DirectImplementations == {"anthropic"}

\* _resolve_vendor: the vendor of an alias, from the prefix of its
\* aggregator model ID.
_resolve_vendor(alias) ==
    CASE alias = "claude" -> "anthropic"
      [] alias = "gpt" -> "openai"
      [] alias = "gemini" -> "google"
      [] alias = "grok" -> "xai"
      [] OTHER -> "openrouter"

\* DEFAULT_MODEL_ALIASES_V2: alias -> aggregator ID and, if any, direct ID.
HasDirectId(alias) == alias \in {"claude", "gpt"}

\* Config.resolve_model: the direct ID when asked for and configured, else
\* the aggregator ID.
resolve_model(alias, direct) ==
    IF direct /\ HasDirectId(alias) THEN <<alias, "direct">> ELSE <<alias, "openrouter">>

\* A key reported for every vendor
get_provider_key_Always(config, vendor) == TRUE

\* Config.get_provider_key(vendor) is not None
get_provider_key(config, vendor) == vendor \in config.providers

\* The mode of an alias: its own entry of the routing table, else the default.
mode_of(config, alias) ==
    IF alias \in DOMAIN config.routing /\ config.routing[alias] # None
    THEN config.routing[alias]
    ELSE config.routing["default_mode"]

\* A direct call is possible: the vendor's key is configured and a direct
\* provider class exists.
CanDirect(config, alias) ==
    /\ get_provider_key(config, _resolve_vendor(alias))
    /\ _resolve_vendor(alias) \in DirectImplementations

RoutingDecision(vendor, mode, via_openrouter) ==
    [vendor |-> vendor, mode |-> mode, via_openrouter |-> via_openrouter]

\* ProviderRouter.route: the decision for one alias, no call issued.
route(config, alias) ==
    RoutingDecision(_resolve_vendor(alias), mode_of(config, alias),
                    \/ mode_of(config, alias) = "openrouter"
                    \/ ~CanDirect(config, alias))

\* The warning route logs: only a direct-mode request that falls back.
route_warning(config, alias) ==
    IF mode_of(config, alias) # "direct" \/ CanDirect(config, alias) THEN None
    ELSE IF ~get_provider_key(config, _resolve_vendor(alias)) THEN "no API key"
    ELSE "no provider implementation"

\* The client a decision points to.
ClientOf(decision) == IF decision.via_openrouter THEN "openrouter" ELSE decision.vendor

\* ProviderRouter.__aenter__: the aggregator client iff its key is
\* configured, a vendor's direct client iff its key is configured and a
\* provider class exists.
ClientsToOpen(config) ==
    {c \in {"openrouter"} \cup Vendors :
        /\ get_provider_key(config, c)
        /\ c = "openrouter" \/ c \in DirectImplementations}

\* The error of a response the router builds when no client can serve it.
NoProvider == "No provider available"

NoRouter == [entered |-> FALSE, clients |-> {}, opened |-> {}, closed |-> {},
             warnings |-> {}]

\* async with ProviderRouter(config) as router: entry
RouterEnter(r, config) ==
    [r EXCEPT !.entered = TRUE, !.clients = ClientsToOpen(config),
              !.opened = @ \cup ClientsToOpen(config)]

\* ProviderRouter.__aexit__: every open client is closed and unregistered.
RouterExit(r) ==
    [r EXCEPT !.entered = FALSE, !.clients = {}, !.closed = @ \cup r.clients]

\* A scope whose exit code runs on a normal return only
ScopeLeft_OnReturnOnly(r, how) == IF how = "return" THEN RouterExit(r) ELSE r

\* "async with ProviderRouter(config) as router": the block is left by a
\* return, an exception or a cancellation, and __aexit__ runs each time.
ScopeLeft(r, how) == RouterExit(r)

\* route called by a dispatch: its warning, if any, is logged.
RouterWarn(r, config, reqs) ==
    [r EXCEPT !.warnings = @ \cup
        {<<reqs[i].alias_or_id, route_warning(config, reqs[i].alias_or_id)>> :
            i \in {j \in 1..Len(reqs) :
                      route_warning(config, reqs[j].alias_or_id) # None}}]

\* The call is served by a client that is open.
Served(r, config, req) == ClientOf(route(config, req.alias_or_id)) \in r.clients

\* A router call that attaches the decision to successful responses only
router_complete_BareError(r, config, req, slot, outcome) ==
    IF Served(r, config, req)
    THEN [ProviderComplete(req, slot, outcome)
            EXCEPT !.model_id = resolve_model(req.alias_or_id,
                                    ~route(config, req.alias_or_id).via_openrouter),
                   !.routing = IF outcome = "ok"
                               THEN <<route(config, req.alias_or_id)>> ELSE <<>>]
    ELSE [ModelResponse(req.model_alias, req.round_number, NoContent, NoProvider)
            EXCEPT !.model_id = <<req.alias_or_id>>]

\* ProviderRouter.complete: the call goes through the client of the
\* decision with the model ID of that route, and the decision is attached
\* to the response; without that client the error response is built here.
router_complete(r, config, req, slot, outcome) ==
    IF Served(r, config, req)
    THEN [ProviderComplete(req, slot, outcome)
            EXCEPT !.model_id = resolve_model(req.alias_or_id,
                                    ~route(config, req.alias_or_id).via_openrouter),
                   !.routing = <<route(config, req.alias_or_id)>>]
    ELSE [ModelResponse(req.model_alias, req.round_number, NoContent, NoProvider)
            EXCEPT !.model_id = <<req.alias_or_id>>,
                   !.routing = <<route(config, req.alias_or_id)>>]

\* ------------------------------------------------------------------------
\* State
\* ------------------------------------------------------------------------
VARIABLES
    args,            \* the arguments of the call (never assigned)
    source,          \* replay: the source transcript object
    heap,            \* list objects: reference -> list of rounds
    pc,              \* position of the task
    nextId,          \* next fresh transcript id (uuid4)
    transcript,      \* the transcript under construction
    round_offset,    \* replay: len(source.rounds) read before the loop
    round_num,       \* round number of the round being run
    prev_responses,  \* the local variable prev_responses
    responses,       \* the local list returned by the last fan-out
    requests,        \* requests of the calls in flight
    results,         \* per request: <<>> while pending, <<response>> when done
    doneOrder,       \* slots in the order their calls finished
    hookLog,         \* invocations of on_round_complete: round and status
    dispatchLog,     \* round numbers of the dispatches issued, in order
    faults,          \* failed calls and raising callbacks so far
    state,           \* web page: _DebateState (task, completed_rounds)
    store,           \* transcripts written by save_transcript, in order
    returned,        \* run_debate / run_replay returned `transcript`
    raised,          \* exception that left the call, or None
    cancelAt,        \* where the abort hit the task, <<>> if it did not
    router,          \* the ProviderRouter: scope, open clients, history
    judge_reply,     \* score_synthesis: the text the judge call returned
    provider,        \* a provider client used on its own: scope, calls
    pricing_cache,   \* a PricingCache with the fetches and lookups made
    files            \* the transcript directory: file name -> transcript

vars == <<args, source, heap, pc, nextId, transcript, round_offset, round_num,
          prev_responses, responses, requests, results, doneOrder, hookLog,
          dispatchLog, faults, state, store, returned, raised, cancelAt,
          router, judge_reply, provider, pricing_cache, files>>

\* the variables of run_debate, run_replay and the page
orchestrator_vars == <<args, source, heap, pc, nextId, transcript, round_offset,
                       round_num, prev_responses, responses, requests, results,
                       doneOrder, hookLog, dispatchLog, faults, state, store,
                       returned, raised, cancelAt, router, judge_reply>>

Rounds(t) == heap[t.rounds]

\* json.dump(transcript.to_dict()): the file holds the rounds by value.
Serialized(t, rounds) == [t EXCEPT !.rounds = rounds]

\* ------------------------------------------------------------------------
\* Inputs
\* ------------------------------------------------------------------------
\* Panels with duplicates allowed; by symmetry of the aliases the first slot
\* is always claude.  The empty panel stands for "no panel given".
Panels == {p \in SeqsUpTo(Aliases, MaxPanel) : p # <<>> => p[1] = "claude"}

\* rounds argument: 0 (or None), the legal 1..3, and one value above the cap.
RoundsArgs == 0..(MAX_ROUNDS + 1)

\* A configuration: the providers that have a key, and the routing table
\* (default mode, per-alias override or None).
Config(providers, default_mode, overrides) ==
    [providers |-> providers,
     routing |-> [k \in {"default_mode"} \cup Aliases |->
                     IF k = "default_mode" THEN default_mode ELSE overrides[k]]]

\* Keys for the aggregator and for Anthropic, every alias in auto mode.
DefaultConfig ==
    Config({"openrouter", "anthropic"}, "auto", [a \in Aliases |-> None])

\* Any set of keys, any default mode, at most one alias overridden.
Configs ==
    {Config(ps, dm, ov) :
        ps \in SUBSET ({"openrouter"} \cup Vendors), dm \in Modes,
        ov \in {o \in [Aliases -> Modes \cup {None}] :
                   Cardinality({a \in Aliases : o[a] # None}) <= 1}}

NoSource == DebateTranscript(0, "q", <<>>, None, 0, SrcRef, Metadata(FALSE))

NoTranscript == DebateTranscript(0, "", <<>>, None, 0, NewRef, Metadata(FALSE))

\* Rounds of a stored transcript: round k-1 at position k, one response per
\* panel slot, the calls in errs having failed.
SourceRounds(panel, K, errs) ==
    [k \in 1..K |->
        DebateRound(k - 1, IF k = 1 THEN "initial" ELSE "reflection",
            StampRole(
                [i \in 1..Len(panel) |->
                    ProviderComplete(Request(panel[i], format_initial("q"), k - 1),
                                     i,
                                     IF <<k, i>> \in errs THEN "http" ELSE "ok")],
                IF k = 1 THEN "initial" ELSE "reflection"))]

SourceSynthesis(alias) ==
    [ModelResponse(alias, -1, <<-1, 1>>, None) EXCEPT !.role = "synthesis"]

\* What the store can hand to run_replay: a completed debate (all rounds,
\* synthesis present) or the partial transcript of an aborted one (any
\* number of whole rounds, none included; no synthesis; aborted = True).
SourceTranscript(panel, K, errs, aborted) ==
    [DebateTranscript(1, "q", panel, DEFAULT_SYNTHESIZER, Max(1, K - 1),
                      SrcRef, Metadata(aborted))
        EXCEPT !.synthesis = IF aborted THEN <<>>
                             ELSE <<SourceSynthesis(DEFAULT_SYNTHESIZER)>>]

InitCommon ==
    /\ pc = "start"
    /\ nextId = 2
    /\ transcript = NoTranscript
    /\ round_offset = 0
    /\ round_num = 0
    /\ prev_responses = <<>>
    /\ responses = <<>>
    /\ requests = <<>>
    /\ results = <<>>
    /\ doneOrder = <<>>
    /\ hookLog = <<>>
    /\ dispatchLog = <<>>
    /\ faults = 0
    /\ state = [task |-> FALSE, completed_rounds |-> <<>>]
    /\ store = <<>>
    /\ returned = FALSE
    /\ raised = None
    /\ cancelAt = <<>>
    /\ router = NoRouter
    /\ judge_reply = <<>>

InitDebate ==
    /\ \E caller \in {"lib", "web"}, panel \in Panels, rounds \in RoundsArgs,
          synth \in {None, "gpt"}, gt \in {None, "gt"},
          ctx \in {{}, {"claude"}}, cb \in {"none", "hook", "web"},
          config \in Configs :
        \* the page: its own callback, the form's 1..3 rounds and selected
        \* synthesizer, no context
        /\ caller = "web" =>
              /\ cb = "web"
              /\ rounds \in 1..MAX_ROUNDS
              /\ synth # None
              /\ ctx = {}
        \* a library caller: with or without a hook, a context for claude;
        \* the default panel is taken together with the default round count,
        \* a round count above the cap is tried with a one-member panel
        /\ caller = "lib" => cb \in {"none", "hook"} /\ ctx = {"claude"}
        /\ (caller = "lib" /\ panel = <<>>) => rounds = 0
        /\ rounds \notin 1..MAX_ROUNDS => Len(panel) <= 1
        \* the full round count is tried with panels of up to two members
        /\ Len(panel) > 2 => rounds < MAX_ROUNDS
        \* the configurations other than the default one are tried by a
        \* library caller with a panel of claude and gpt, one reflection
        \* round and no hook
        /\ config # DefaultConfig =>
              /\ caller = "lib" /\ panel = <<"claude", "gpt">> /\ rounds = 1
              /\ synth = None /\ cb = "none"
        /\ args = [op |-> "debate", caller |-> caller, query |-> "q",
                   config |-> config,
                   panel |-> panel, rounds |-> rounds, synthesizer |-> synth,
                   ground_truth |-> gt, panelist_context |-> ctx,
                   on_round_complete |-> cb, additional_rounds |-> 0,
                   source |-> NoSource, source_rounds |-> <<>>]
    /\ source = NoSource
    /\ heap = [r \in {SrcRef, NewRef} |-> <<>>]
    /\ InitCommon

InitReplay ==
    /\ \E panel \in Panels \ {<<>>}, K \in 0..MaxSrcRounds, aborted \in BOOLEAN,
          errs \in SUBSET ((1..MaxSrcRounds) \X (1..MaxPanel)),
          M \in (-1)..MaxAdditionalRounds,
          synth \in {None, "gpt"}, gt \in {None, "gt"},
          ctx \in {{}, {"claude"}}, cb \in {"hook"} :
        /\ ~aborted => K >= 2
        \* source panels: one member, or several the last of which is gpt
        /\ Len(panel) > 1 => panel[Len(panel)] = "gpt"
        \* plain, with a synthesizer override, or with ground truth and context
        /\ (ctx = {}) <=> (gt = None)
        /\ synth # None => gt = None
        \* the largest count of additional rounds is tried with one member,
        \* scoring with at most one additional round
        /\ M = MaxAdditionalRounds => Len(panel) = 1
        /\ gt # None => M <= 1
        \* at most the first call of the last round has failed
        /\ errs \subseteq {<<K, 1>>}
        /\ args = [op |-> "replay", caller |-> "lib", query |-> "q",
                   config |-> DefaultConfig,
                   panel |-> panel, rounds |-> 0, synthesizer |-> synth,
                   ground_truth |-> gt, panelist_context |-> ctx,
                   on_round_complete |-> cb, additional_rounds |-> M,
                   source |-> SourceTranscript(panel, K, errs, aborted),
                   source_rounds |-> SourceRounds(panel, K, errs)]
        /\ source = SourceTranscript(panel, K, errs, aborted)
        /\ heap = [r \in {SrcRef, NewRef} |->
                      IF r = SrcRef THEN SourceRounds(panel, K, errs) ELSE <<>>]
    /\ InitCommon

\* the components checked on their own are not in use during a debate
NoComponents ==
    /\ provider = <<>>
    /\ pricing_cache = <<>>
    /\ files = <<>>

Init == (InitDebate \/ InitReplay) /\ NoComponents

\* ------------------------------------------------------------------------
\* orchestrator.py: control flow
\* ------------------------------------------------------------------------
\* min(rounds or config.default_rounds, 3): 0 and None both take the default.
num_rounds(rounds) == Min(IF rounds # 0 THEN rounds ELSE DEFAULT_ROUNDS, MAX_ROUNDS)

\* panel or config.default_panel
panel_aliases(panel) == IF panel # <<>> THEN panel ELSE DEFAULT_PANEL

\* The default taken whatever synthesizer was asked for
synth_alias_IgnoreOverride(synthesizer, default) == default

\* synthesizer or <default>
synth_alias(synthesizer, default) == IF synthesizer # None THEN synthesizer ELSE default

\* range(1, num_rounds): the last reflection round is lost
ReflectionRange_OffByOne(n) == 1..(n - 1)

\* range(1, num_rounds + 1)
ReflectionRange(n) == 1..n

\* range(additional_rounds)
ReplayRange(m) == 0..(m - 1)

\* rounds = source.rounds: the new transcript shares the source's list
ListCopy_Alias(ref) == ref

\* list(source.rounds): a new list object
ListCopy(ref) == NewRef

\* round_offset = len(source.rounds) + 1: the numbering skips one
round_offset_of_Gap(rounds) == Len(rounds) + 1

\* round_offset = len(source.rounds)
round_offset_of(rounds) == Len(rounds)

\* source.rounds[-1].responses
LastSourceResponses(rounds) == rounds[Len(rounds)].responses

\* _fire_round_hook returning at once, callback or not
HasCallback_Never(cb) == FALSE

\* _fire_round_hook: "if callback is None: return"
HasCallback(cb) == cb # "none"

\* _fire_round_hook without the try / except: the exception leaves the call
HookResult_Propagate(outcome) == IF outcome = "raise" THEN "propagate" ELSE "continue"

\* _fire_round_hook: try / except Exception around the awaited callback
HookResult(outcome) == "continue"

RoundType == IF args.op = "debate" /\ round_num = 0 THEN "initial" ELSE "reflection"

PanelOfCall == IF args.op = "debate" THEN transcript.panel ELSE source.panel

MoreRounds ==
    IF args.op = "debate"
    THEN (round_num + 1) \in ReflectionRange(transcript.max_rounds)
    ELSE (round_num + 1 - round_offset) \in ReplayRange(args.additional_rounds)

\* No call is in flight any more (doneOrder keeps the order in which the
\* calls of the last fan-out finished).
ClearCalls ==
    /\ requests' = <<>>
    /\ results' = <<>>
    /\ doneOrder' = doneOrder

\* _run_reflection_round up to the await of the fan-out
DispatchReflection(prev, rn) ==
    /\ requests' = _run_reflection_round_requests(args.query, PanelOfCall, prev, rn,
                                                  args.panelist_context)
    /\ results' = [i \in 1..Len(requests') |-> <<>>]
    /\ doneOrder' = <<>>
    /\ dispatchLog' = Append(dispatchLog, rn)
    /\ router' = RouterWarn(router, args.config, requests')
    /\ round_num' = rn
    /\ pc' = "round"

\* _run_synthesis up to the await of router.complete
DispatchSynthesis(rounds) ==
    /\ requests' = <<_run_synthesis_request(args.query, transcript.synthesizer_id, rounds)>>
    /\ results' = <<(<<>>)>>
    /\ doneOrder' = doneOrder
    /\ dispatchLog' = Append(dispatchLog, -1)
    /\ router' = RouterWarn(router, args.config, requests')
    /\ round_num' = round_num
    /\ pc' = "synthesis"

\* After _fire_round_hook of a panel round: prev_responses = <responses>,
\* then the next iteration of the loop, or synthesis.
AfterRoundHook(rounds, resp) ==
    /\ prev_responses' = resp
    /\ IF MoreRounds
       THEN DispatchReflection(resp, round_num + 1)
       ELSE DispatchSynthesis(rounds)

\* on_submit up to the first await inside run_debate (pricing prefetch).
Start ==
    /\ pc = "start"
    /\ args.op = "debate"
    /\ IF args.caller = "web" /\ args.panel = <<>>
       THEN /\ pc' = "done"
            /\ UNCHANGED <<state, transcript, nextId, router>>
       ELSE /\ state' = IF args.caller = "web"
                        THEN [task |-> TRUE, completed_rounds |-> <<>>]
                        ELSE state
            /\ transcript' = DebateTranscript(nextId, args.query,
                                 panel_aliases(args.panel),
                                 synth_alias(args.synthesizer, DEFAULT_SYNTHESIZER),
                                 num_rounds(args.rounds), NewRef, Metadata(FALSE))
            /\ nextId' = nextId + 1
            /\ router' = RouterEnter(router, args.config)
            /\ pc' = "prefetch"
    /\ UNCHANGED <<provider, pricing_cache, files, judge_reply, args, source, heap, round_offset, round_num, prev_responses,
                   responses, requests, results, doneOrder, hookLog, dispatchLog,
                   faults, store, returned, raised, cancelAt>>

\* run_replay accepting every additional-round count
ValidAdditionalRounds_Unchecked(m) == TRUE

\* run_replay: "if additional_rounds < 0: raise ValueError"
ValidAdditionalRounds(m) == ~(m < 0)

\* run_replay up to the first await (pricing prefetch).
StartReplay ==
    /\ pc = "start"
    /\ args.op = "replay"
    /\ IF ~ValidAdditionalRounds(args.additional_rounds)
       THEN /\ raised' = "ValueError"
            /\ pc' = "done"
            /\ UNCHANGED <<transcript, nextId, heap, router>>
       ELSE /\ transcript' = DebateTranscript(nextId, source.query, source.panel,
                                 synth_alias(args.synthesizer, source.synthesizer_id),
                                 source.max_rounds + args.additional_rounds,
                                 ListCopy(source.rounds), Metadata(FALSE))
            /\ heap' = [heap EXCEPT ![ListCopy(source.rounds)] = heap[source.rounds]]
            /\ nextId' = nextId + 1
            /\ router' = RouterEnter(router, args.config)
            /\ pc' = "prefetch"
            /\ UNCHANGED raised
    /\ UNCHANGED <<provider, pricing_cache, files, judge_reply, args, source, round_offset, round_num, prev_responses, responses,
                   requests, results, doneOrder, hookLog, dispatchLog, faults,
                   state, store, returned, cancelAt>>

\* The prefetch returns; the code runs up to the await of the first fan-out
\* (or of the synthesis call when a replay adds no round).
PrefetchDone ==
    /\ pc = "prefetch"
    /\ IF args.op = "debate"
       THEN /\ requests' = _run_initial_round_requests(args.query, transcript.panel,
                                                       args.panelist_context)
            /\ results' = [i \in 1..Len(requests') |-> <<>>]
            /\ doneOrder' = <<>>
            /\ dispatchLog' = Append(dispatchLog, 0)
            /\ router' = RouterWarn(router, args.config, requests')
            /\ round_num' = 0
            /\ pc' = "round"
            /\ UNCHANGED <<round_offset, prev_responses, raised>>
       ELSE IF args.additional_rounds > 0
       THEN IF Rounds(source) = <<>>
            THEN \* source.rounds[-1] on an empty list: IndexError
                 /\ raised' = "IndexError"
                 /\ router' = ScopeLeft(router, "raise")
                 /\ pc' = "done"
                 /\ UNCHANGED <<round_offset, round_num, prev_responses, requests,
                                results, doneOrder, dispatchLog>>
            ELSE /\ prev_responses' = LastSourceResponses(Rounds(source))
                 /\ round_offset' = round_offset_of(Rounds(source))
                 /\ DispatchReflection(LastSourceResponses(Rounds(source)),
                                       round_offset_of(Rounds(source)))
                 /\ UNCHANGED raised
       ELSE /\ DispatchSynthesis(Rounds(transcript))
            /\ UNCHANGED <<round_offset, prev_responses, raised>>
    /\ UNCHANGED <<provider, pricing_cache, files, judge_reply, args, source, heap, nextId, transcript, responses, hookLog,
                   faults, state, store, returned, cancelAt>>

\* One call of the fan-out in flight finishes.  The calls that fail are
\* among those of the first two panel slots.
CallCompletes(i, outcome) ==
    /\ pc = "round"
    /\ i \in 1..Len(requests)
    /\ results[i] = <<>>
    /\ outcome # "ok" => /\ faults < MaxFaults
                          /\ i \in FailingSlots
                          /\ Served(router, args.config, requests[i])
    /\ results' = [results EXCEPT ![i] =
                      <<router_complete(router, args.config, requests[i], i, outcome)>>]
    /\ doneOrder' = Append(doneOrder, i)
    /\ faults' = IF outcome = "ok" THEN faults ELSE faults + 1
    /\ UNCHANGED <<provider, pricing_cache, files, judge_reply, args, source, heap, pc, nextId, transcript, round_offset,
                   round_num, prev_responses, responses, requests, hookLog,
                   dispatchLog, state, store, returned, raised, cancelAt, router>>

\* A failure of client.post that is not a timeout (a refused or dropped
\* connection).
TransportFailures == {"ConnectError"}

\* OpenRouterProvider.complete: "except httpx.TimeoutException" is the only
\* handler around client.post, so any other failure of the post leaves
\* complete as an exception.
UncaughtByProvider(failure) == failure # "TimeoutException"

\* A call in flight (of a round, the synthesis call or the judge call) fails
\* with a transport failure the provider does not catch: the exception
\* leaves the provider, the fan-out and run_debate / run_replay through the
\* router scope; the page reports the failure and clears its task.
CallRaises(i, failure) ==
    /\ pc \in {"round", "synthesis", "scoring"}
    /\ i \in 1..Len(requests)
    /\ results[i] = <<>>
    /\ failure \in TransportFailures
    /\ UncaughtByProvider(failure)
    /\ faults < MaxFaults
    /\ pc = "round" => i \in FailingSlots
    /\ Served(router, args.config, requests[i])
    /\ faults' = faults + 1
    /\ raised' = failure
    /\ router' = ScopeLeft(router, "raise")
    /\ state' = [state EXCEPT !.task = FALSE]
    /\ pc' = "done"
    /\ ClearCalls
    /\ UNCHANGED <<provider, pricing_cache, files, judge_reply, args, source, heap, nextId, transcript, round_offset,
                   round_num, prev_responses, responses, hookLog, dispatchLog,
                   store, returned, cancelAt>>

\* on_round_complete that renders a panel round without recording it
on_round_complete_rounds_Forget(completed, rnd) == completed

\* The page's on_round_complete up to its await: a panel round is added to
\* state.completed_rounds, the synthesis round is only rendered.
on_round_complete_rounds(completed, rnd) ==
    IF rnd.round_type = "synthesis" THEN completed ELSE Append(completed, rnd)

\* The fan-out returns: roles are stamped, the round is appended and the
\* hook is fired; without a callback the code runs on to the next dispatch.
RoundGathered ==
    /\ pc = "round"
    /\ GatherDone(results)
    /\ LET resp == StampRole(complete_parallel(results, doneOrder), RoundType)
           rnd == DebateRound(round_num, RoundType, resp)
           newRounds == Append(heap[transcript.rounds], rnd)
       IN  /\ heap' = [heap EXCEPT ![transcript.rounds] = newRounds]
           /\ responses' = resp
           /\ IF HasCallback(args.on_round_complete)
              THEN /\ hookLog' = Append(hookLog, [round |-> rnd, status |-> "running"])
                   /\ state' = IF args.on_round_complete = "web"
                               THEN [state EXCEPT !.completed_rounds =
                                        on_round_complete_rounds(@, rnd)]
                               ELSE state
                   /\ pc' = "in_hook"
                   /\ ClearCalls
                   /\ UNCHANGED <<prev_responses, round_num, dispatchLog, router>>
              ELSE /\ AfterRoundHook(newRounds, resp)
                   /\ UNCHANGED <<hookLog, state>>
    /\ UNCHANGED <<provider, pricing_cache, files, judge_reply, args, source, nextId, transcript, round_offset, faults, store,
                   returned, raised, cancelAt>>

\* The callback of a panel round returns or raises.  The page's callback
\* catches its own rendering errors, so only a library hook can raise.
HookReturns(outcome) ==
    /\ pc = "in_hook"
    /\ outcome \in {"ok", "raise"}
    /\ outcome = "raise" => args.on_round_complete = "hook" /\ faults < MaxFaults
    /\ hookLog' = [hookLog EXCEPT ![Len(hookLog)].status = outcome]
    /\ faults' = IF outcome = "raise" THEN faults + 1 ELSE faults
    /\ IF HookResult(outcome) = "continue"
       THEN /\ AfterRoundHook(Rounds(transcript), responses)
            /\ UNCHANGED raised
       ELSE /\ raised' = "RuntimeError"
            /\ router' = ScopeLeft(router, "raise")
            /\ pc' = "done"
            /\ UNCHANGED <<prev_responses, requests, results, doneOrder,
                           dispatchLog, round_num>>
    /\ UNCHANGED <<provider, pricing_cache, files, judge_reply, args, source, heap, nextId, transcript, round_offset, responses,
                   state, store, returned, cancelAt>>

\* A judge's reply: what follows "ACCURACY:" and "COMPLETENESS:", or
\* "missing" when the field is not there.
JudgeText(accuracy, completeness) == [accuracy |-> accuracy, completeness |-> completeness]

EmptyText == JudgeText("missing", "missing")

\* Nothing, a score that is no number, a missing field, scores out of
\* range, scores in range.
JudgeTexts ==
    {EmptyText, JudgeText("n/a", "5"), JudgeText("4", "missing"),
     JudgeText("7", "0"), JudgeText("4", "5")}

\* int(s): the strings that are numerals
IsNumeral(s) == s \in {"0", "4", "5", "7"}

int(s) == CASE s = "0" -> 0 [] s = "4" -> 4 [] s = "5" -> 5 [] s = "7" -> 7

\* clamping from below only
clamp_LowerOnly(n) == Max(1, n)

\* max(1, min(5, n))
clamp(n) == Max(1, Min(5, n))

\* parse_score_response: ValueError when a field is missing or is not a
\* number, else the two scores clamped to 1..5.
parse_score_response(content) ==
    IF content.accuracy = "missing" \/ ~IsNumeral(content.accuracy)
    THEN [raised |-> "ValueError", accuracy |-> 0, completeness |-> 0]
    ELSE IF content.completeness = "missing" \/ ~IsNumeral(content.completeness)
    THEN [raised |-> "ValueError", accuracy |-> 0, completeness |-> 0]
    ELSE [raised |-> None, accuracy |-> clamp(int(content.accuracy)),
          completeness |-> clamp(int(content.completeness))]

\* overall is a float: the pair <<numerator, denominator>>.
GroundTruthScore(accuracy, completeness, overall, explanation, judge_model) ==
    [accuracy |-> accuracy, completeness |-> completeness, overall |-> overall,
     explanation |-> explanation, judge_model |-> judge_model]

\* score_synthesis letting the parse error leave the call
score_synthesis_outcome_Raise(content) == parse_score_response(content).raised

\* score_synthesis: "except ValueError" returns the error score.
score_synthesis_outcome(content) == None

\* scoring.score_synthesis after the judge call: the parsed score, or the
\* error score when the judge's text cannot be parsed (the empty content of
\* a failed call included).
score_synthesis(content, judge_alias) ==
    IF parse_score_response(content).raised = None
    THEN GroundTruthScore(parse_score_response(content).accuracy,
                          parse_score_response(content).completeness,
                          <<parse_score_response(content).accuracy
                              + parse_score_response(content).completeness, 2>>,
                          "explanation of the judge", judge_alias)
    ELSE GroundTruthScore(-1, -1, <<-1, 1>>, "Judge output could not be parsed",
                          judge_alias)

\* The end of run_debate / run_replay after the router scope, and for the
\* page the code of on_submit up to its next await.
Finish(t) ==
    LET t1 == [t EXCEPT !.metadata.panelist_context = args.panelist_context]
        t2 == IF args.op = "replay"
              THEN [t1 EXCEPT
                      !.metadata.source_transcript_id = <<source.transcript_id>>,
                      !.metadata.replay_config =
                          <<[synthesizer_override |-> args.synthesizer,
                             additional_rounds |-> args.additional_rounds]>>]
              ELSE t1
    IN  /\ transcript' = t2
        /\ returned' = TRUE
        /\ router' = ScopeLeft(router, "return")
        /\ ClearCalls
        /\ IF args.caller = "web"
           THEN /\ store' = Append(store, Serialized(t2, Rounds(t2)))
                /\ pc' = "post_render"
           ELSE /\ store' = store
                /\ pc' = "done"

\* Scoring whenever a ground truth is given, failed synthesis or not
ShouldScore_AnySynthesis(ground_truth, synthesis) == ground_truth # None

\* "if ground_truth and not synthesis.error"
ShouldScore(ground_truth, synthesis) == ground_truth # None /\ synthesis.error = None

\* After the hook of the synthesis round: the optional scoring dispatch.
AfterSynthHook(t) ==
    IF ShouldScore(args.ground_truth, t.synthesis[1])
    THEN /\ transcript' = t
         /\ requests' = <<Request(t.synthesizer_id,
                                  Prompt("scoring", t.synthesis[1].content, <<>>, <<>>),
                                  -2)>>
         /\ results' = <<(<<>>)>>
         /\ doneOrder' = doneOrder
         /\ dispatchLog' = Append(dispatchLog, -2)
         /\ router' = RouterWarn(router, args.config, requests')
         /\ pc' = "scoring"
         /\ UNCHANGED <<store, returned>>
    ELSE /\ Finish(t)
         /\ UNCHANGED dispatchLog

\* The synthetic round built without its response
synth_round_Empty(synthesis) == DebateRound(-1, "synthesis", <<>>)

\* DebateRound(round_number=-1, round_type="synthesis", responses=[synthesis])
synth_round(synthesis) == DebateRound(-1, "synthesis", <<synthesis>>)

\* The synthesis call finishes: the response is stored and the hook fired
\* with a synthetic single-response round.
SynthCompletes(outcome) ==
    /\ pc = "synthesis"
    /\ outcome \in Outcomes
    /\ outcome # "ok" => /\ faults < MaxFaults
                          /\ Served(router, args.config, requests[1])
    /\ faults' = IF outcome = "ok" THEN faults ELSE faults + 1
    /\ LET synthesis == [router_complete(router, args.config, requests[1], 1, outcome)
                            EXCEPT !.role = "synthesis"]
           t == [transcript EXCEPT !.synthesis = <<synthesis>>]
       IN  IF HasCallback(args.on_round_complete)
           THEN /\ transcript' = t
                /\ hookLog' = Append(hookLog, [round |-> synth_round(synthesis),
                                               status |-> "running"])
                /\ state' = IF args.on_round_complete = "web"
                            THEN [state EXCEPT !.completed_rounds =
                                     on_round_complete_rounds(@, synth_round(synthesis))]
                            ELSE state
                /\ pc' = "in_synth_hook"
                /\ ClearCalls
                /\ UNCHANGED <<dispatchLog, store, returned, router>>
           ELSE /\ AfterSynthHook(t)
                /\ UNCHANGED <<hookLog, state>>
    /\ UNCHANGED <<provider, pricing_cache, files, judge_reply, args, source, heap, nextId, round_offset, round_num,
                   prev_responses, responses, raised, cancelAt>>

SynthHookReturns(outcome) ==
    /\ pc = "in_synth_hook"
    /\ outcome \in {"ok", "raise"}
    /\ outcome = "raise" => args.on_round_complete = "hook" /\ faults < MaxFaults
    /\ hookLog' = [hookLog EXCEPT ![Len(hookLog)].status = outcome]
    /\ faults' = IF outcome = "raise" THEN faults + 1 ELSE faults
    /\ IF HookResult(outcome) = "continue"
       THEN /\ AfterSynthHook(transcript)
            /\ UNCHANGED raised
       ELSE /\ raised' = "RuntimeError"
            /\ router' = ScopeLeft(router, "raise")
            /\ pc' = "done"
            /\ UNCHANGED <<transcript, requests, results, doneOrder, dispatchLog,
                           store, returned>>
    /\ UNCHANGED <<provider, pricing_cache, files, judge_reply, args, source, heap, nextId, round_offset, round_num,
                   prev_responses, responses, state, cancelAt>>

\* The text of a response of the judge: what the judge wrote, or the empty
\* content of an error response.
JudgeContent(response, judge_text) == IF response.error = None THEN judge_text ELSE EmptyText

\* The judge call finishes: the score goes to synthesis.analysis and to
\* metadata.scores.
ScoreCompletes(outcome, judge_text) ==
    /\ pc = "scoring"
    /\ outcome \in Outcomes
    /\ judge_text \in JudgeTexts
    /\ outcome # "ok" => /\ faults < MaxFaults
                          /\ Served(router, args.config, requests[1])
    /\ (outcome # "ok" \/ ~Served(router, args.config, requests[1]))
          => judge_text = EmptyText
    /\ faults' = IF outcome = "ok" THEN faults ELSE faults + 1
    /\ LET response == router_complete(router, args.config, requests[1], 1, outcome)
           content == JudgeContent(response, judge_text)
           score == score_synthesis(content, transcript.synthesizer_id)
           t == [transcript EXCEPT
                   !.synthesis[1].analysis = <<score>>,
                   !.metadata.scores =
                       <<[ground_truth |-> args.ground_truth,
                          judge_model |-> transcript.synthesizer_id,
                          synthesis_score |-> score]>>]
       IN  /\ judge_reply' = <<[error |-> response.error, content |-> content]>>
           /\ IF score_synthesis_outcome(content) = None
              THEN /\ Finish(t)
                   /\ UNCHANGED raised
              ELSE /\ raised' = score_synthesis_outcome(content)
                   /\ router' = ScopeLeft(router, "raise")
                   /\ pc' = "done"
                   /\ UNCHANGED <<transcript, requests, results, doneOrder, store,
                                  returned>>
    /\ UNCHANGED <<provider, pricing_cache, files, args, source, heap, nextId, round_offset, round_num,
                   prev_responses, responses, hookLog, dispatchLog, state,
                   cancelAt>>

\* on_submit after its last await: the finally block.
WebDone ==
    /\ pc = "post_render"
    /\ state' = [state EXCEPT !.task = FALSE]
    /\ pc' = "done"
    /\ UNCHANGED <<provider, pricing_cache, files, judge_reply, args, source, heap, nextId, transcript, round_offset, round_num,
                   prev_responses, responses, requests, results, doneOrder,
                   hookLog, dispatchLog, faults, store, returned, raised, cancelAt,
                   router>>

\* Awaits at which the task of on_submit can be suspended.
SuspensionPoints ==
    {"prefetch", "round", "in_hook", "synthesis", "in_synth_hook", "scoring",
     "post_render"}

\* _handle_abort building the partial transcript without the aborted marker
partial_transcript_Unmarked(id, completed_rounds) ==
    Serialized(DebateTranscript(id, args.query, args.panel, args.synthesizer,
                                args.rounds, NewRef, Metadata(FALSE)),
               completed_rounds)

\* _handle_abort: the partial transcript that is saved.
partial_transcript(id, completed_rounds) ==
    Serialized(DebateTranscript(id, args.query, args.panel, args.synthesizer,
                                args.rounds, NewRef, Metadata(TRUE)),
               completed_rounds)

\* on_abort: task.cancel().  CancelledError is thrown at the await the task
\* is suspended on (a fan-out in flight is cancelled with it), leaves
\* run_debate, and on_submit runs _handle_abort and its finally block.
OnAbort ==
    /\ args.caller = "web"
    /\ state.task
    /\ pc \in SuspensionPoints
    /\ cancelAt' = <<[pc |-> pc, round_num |-> round_num,
                      finished |-> Len(doneOrder)]>>
    /\ hookLog' = IF pc \in {"in_hook", "in_synth_hook"}
                  THEN [hookLog EXCEPT ![Len(hookLog)].status = "cancelled"]
                  ELSE hookLog
    /\ store' = Append(store, partial_transcript(nextId, state.completed_rounds))
    /\ nextId' = nextId + 1
    /\ state' = [state EXCEPT !.task = FALSE]
    /\ router' = IF router.entered THEN ScopeLeft(router, "cancel") ELSE router
    /\ pc' = "done"
    /\ ClearCalls
    /\ UNCHANGED <<provider, pricing_cache, files, judge_reply, args, source, heap, transcript, round_offset, round_num,
                   prev_responses, responses, dispatchLog, faults, returned, raised>>

Next ==
    \/ Start
    \/ StartReplay
    \/ PrefetchDone
    \/ \E i \in 1..Max(MaxPanel, Len(DEFAULT_PANEL)), outcome \in Outcomes :
          CallCompletes(i, outcome)
    \/ \E i \in 1..Max(MaxPanel, Len(DEFAULT_PANEL)), failure \in TransportFailures :
          CallRaises(i, failure)
    \/ RoundGathered
    \/ \E outcome \in {"ok", "raise"} : HookReturns(outcome)
    \/ \E outcome \in Outcomes : SynthCompletes(outcome)
    \/ \E outcome \in {"ok", "raise"} : SynthHookReturns(outcome)
    \/ \E outcome \in Outcomes, judge_text \in JudgeTexts :
          ScoreCompletes(outcome, judge_text)
    \/ WebDone
    \/ OnAbort

Spec == Init /\ [][Next]_vars

\* ------------------------------------------------------------------------
\* Vocabulary of the properties
\* ------------------------------------------------------------------------
IsDebate == args.op = "debate"

IsReplay == args.op = "replay"

\* The response a call of round rn in panel slot i leaves, given whether it
\* failed: a function of the call's outcome alone.
SlotResponse(alias, rn, i, error, role) ==
    [ModelResponse(alias, rn, IF error = None THEN <<rn, i>> ELSE NoContent, error)
        EXCEPT !.role = role]

\* A response without what the router adds to it.
Bare(r) == [r EXCEPT !.model_id = <<>>, !.routing = <<>>]

\* rnd holds one response per panel slot, the i-th being the i-th member's.
WholeRound(rnd, panel) ==
    /\ Len(rnd.responses) = Len(panel)
    /\ \A i \in 1..Len(panel) :
          Bare(rnd.responses[i])
              = SlotResponse(panel[i], rnd.round_number, i,
                             rnd.responses[i].error, rnd.round_type)

\* The round numbers of rounds are 0, 1, ..., Len(rounds) - 1.
NumberedFromZero(rounds) == \A k \in 1..Len(rounds) : rounds[k].round_number = k - 1

\* Rounds the transcript had before the call appended any.
CopiedRounds == IF IsReplay THEN Len(args.source_rounds) ELSE 0

HookFinished(k) == hookLog[k].status \in {"ok", "raise"}

CallbackGiven == args.on_round_complete # "none"

\* A call ended the run with a transport failure its provider let through.
TransportFailed == raised \in TransportFailures

\* The run went through to its end: not cancelled, not refused at the form,
\* not ended by a transport failure.
RanToEnd ==
    /\ pc = "done" /\ cancelAt = <<>> /\ ~TransportFailed
    /\ ~(args.caller = "web" /\ args.panel = <<>>)

\* ------------------------------------------------------------------------
\* C1: a fresh debate with a panel of P >= 1 aliases and a round count N in
\* 1..3 that runs to completion returns a transcript with exactly N + 1
\* rounds, an initial round followed by N reflection rounds, each holding
\* exactly P responses, the i-th being the reply (or the error) of the call
\* made for the i-th panel member, whatever order the calls finished in.
\* ------------------------------------------------------------------------
C1_RoundsInPanelOrder ==
    (IsDebate /\ returned /\ args.panel # <<>> /\ args.rounds \in 1..MAX_ROUNDS) =>
        LET rounds == Rounds(transcript)
        IN  /\ Len(rounds) = args.rounds + 1
            /\ \A k \in 1..Len(rounds) :
                  /\ rounds[k].round_type = IF k = 1 THEN "initial" ELSE "reflection"
                  /\ rounds[k].round_number = k - 1
                  /\ WholeRound(rounds[k], args.panel)

\* A two-member debate with two reflection rounds has returned, the second
\* member's call of the last round having finished before the first's.
C1_Witness ==
    /\ IsDebate /\ returned
    /\ Len(args.panel) = 2 /\ args.rounds = 2
    /\ doneOrder = <<2, 1>>
    /\ Len(Rounds(transcript)) = 3

\* ------------------------------------------------------------------------
\* C2: rounds are strictly sequential.  While the calls of round r are in
\* flight, the rounds before r (and no other) are in the transcript, each
\* with all its responses, and the callback has returned or failed for each
\* round the call ran before r; the dispatches were issued in round order;
\* and while the synthesis call is in flight every round is in the
\* transcript and the callback of the last one has returned or failed.
\* ------------------------------------------------------------------------
C2_RoundsSequential ==
    /\ \A k \in 2..Len(dispatchLog) :
          dispatchLog[k] >= -1 =>
              /\ dispatchLog[k - 1] >= 0
              /\ dispatchLog[k] \in {dispatchLog[k - 1] + 1, -1}
    /\ pc = "round" =>
          /\ Last(dispatchLog) = round_num
          /\ Len(Rounds(transcript)) = round_num
          /\ \A k \in 1..round_num : WholeRound(Rounds(transcript)[k], PanelOfCall)
          /\ CallbackGiven =>
                /\ Len(hookLog) = round_num - CopiedRounds
                /\ \A k \in 1..Len(hookLog) : HookFinished(k)
    /\ pc = "synthesis" =>
          /\ Last(dispatchLog) = -1
          /\ Len(Rounds(transcript)) =
                IF IsDebate THEN transcript.max_rounds + 1
                ELSE CopiedRounds + args.additional_rounds
          /\ CallbackGiven =>
                /\ Len(hookLog) = Len(Rounds(transcript)) - CopiedRounds
                /\ \A k \in 1..Len(hookLog) : HookFinished(k)

\* The calls of round 2 are in flight after the callback of round 0 raised
\* and that of round 1 returned.
C2_Witness ==
    /\ IsDebate /\ pc = "round" /\ round_num = 2
    /\ Len(requests) = 2 /\ results[1] = <<>> /\ results[2] # <<>>
    /\ Len(hookLog) = 2 /\ hookLog[1].status = "raise" /\ hookLog[2].status = "ok"

\* ------------------------------------------------------------------------
\* Cancellation (the page's abort button)
\* ------------------------------------------------------------------------
Cancelled == cancelAt # <<>>

CancelledInRound == Cancelled /\ cancelAt[1].pc = "round"

\* The transcript _handle_abort saved.
Partial == Last(store)

FailedSlots ==
    {<<k, i>> \in (1..Len(Rounds(transcript))) \X (1..Len(transcript.panel)) :
        /\ i <= Len(Rounds(transcript)[k].responses)
        /\ Rounds(transcript)[k].responses[i].error # None}

SynthesisFailed == transcript.synthesis # <<>> /\ transcript.synthesis[1].error # None

\* The transcript is complete: every round of the debate, whole and in
\* order, and a synthesis response.
CompleteDebate ==
    /\ Len(Rounds(transcript)) = transcript.max_rounds + 1
    /\ NumberedFromZero(Rounds(transcript))
    /\ \A k \in 1..Len(Rounds(transcript)) : WholeRound(Rounds(transcript)[k], transcript.panel)
    /\ Len(transcript.synthesis) = 1
    /\ Bare(transcript.synthesis[1]) =
          SlotResponse(transcript.synthesizer_id, -1, 1, transcript.synthesis[1].error,
                       "synthesis")
             \/ /\ transcript.synthesis[1].analysis # <<>>
                /\ [Bare(transcript.synthesis[1]) EXCEPT !.analysis = <<>>] =
                      SlotResponse(transcript.synthesizer_id, -1, 1, None, "synthesis")

\* C5: a model call that fails with a timeout, an HTTP error or for want of
\* a provider never aborts the debate.  The failed call keeps
\* its panel slot as a response with a non-empty error and empty content,
\* the round it belongs to still holds all P responses, every later round
\* and the synthesis call are still dispatched, and run_debate raises
\* nothing and returns a complete transcript.
C5_FailedCallDoesNotAbort ==
    (IsDebate /\ (FailedSlots # {} \/ SynthesisFailed) /\ ~TransportFailed) =>
        /\ raised = None
        /\ \A s \in FailedSlots :
              LET r == Rounds(transcript)[s[1]].responses[s[2]]
              IN  /\ r.error \in CallErrors \cup {NoProvider}
                  /\ r.content = NoContent
                  /\ r.model_alias = transcript.panel[s[2]]
        /\ \A k \in 1..Len(Rounds(transcript)) :
              Len(Rounds(transcript)[k].responses) = Len(transcript.panel)
        /\ RanToEnd =>
              /\ returned
              /\ CompleteDebate
              /\ \A rn \in 0..transcript.max_rounds :
                    \E k \in 1..Len(dispatchLog) : dispatchLog[k] = rn
              /\ \E k \in 1..Len(dispatchLog) : dispatchLog[k] = -1

\* A two-round debate has returned complete although the first member's
\* call of round 0 had failed.
C5_Witness ==
    /\ IsDebate /\ returned /\ pc = "done"
    /\ <<1, 1>> \in FailedSlots
    /\ transcript.max_rounds = 2 /\ Len(transcript.panel) = 2
    /\ Len(Rounds(transcript)) = 3
    /\ transcript.synthesis # <<>>

\* Rounds the call has appended so far.
AppendedRounds == SubSeq(Rounds(transcript), CopiedRounds + 1, Len(Rounds(transcript)))

\* C6: the callback is invoked exactly once per round, in order: once for
\* every round the call has appended, with that round as stored, and then
\* once with a synthetic round (number -1, type synthesis) holding the
\* synthesis response alone; a debate that completes with N reflection
\* rounds has invoked it N + 2 times.
C6_CallbackOncePerRound ==
    CallbackGiven =>
        /\ Len(hookLog) = Len(AppendedRounds) + Len(transcript.synthesis)
        /\ \A k \in 1..Len(hookLog) :
              IF k <= Len(AppendedRounds)
              THEN hookLog[k].round = AppendedRounds[k]
              ELSE /\ hookLog[k].round.round_number = -1
                   /\ hookLog[k].round.round_type = "synthesis"
                   /\ hookLog[k].round.responses =
                         <<[transcript.synthesis[1] EXCEPT !.analysis = <<>>]>>
        /\ (IsDebate /\ returned) => Len(hookLog) = transcript.max_rounds + 2

\* A debate with two reflection rounds has returned after four invocations.
C6_Witness ==
    /\ IsDebate /\ returned /\ CallbackGiven
    /\ transcript.max_rounds = 2
    /\ Len(hookLog) = 4
    /\ hookLog[3].round = Rounds(transcript)[3]
    /\ hookLog[4].round.round_type = "synthesis"

CallbackRaised == \E k \in 1..Len(hookLog) : hookLog[k].status = "raise"

\* C7: a callback that raises does not abort the debate.  Its exception
\* does not leave the call; the remaining rounds and the synthesis still run and the
\* callback is still invoked for each of them; and the returned transcript
\* is complete, its rounds and synthesis being what the calls' outcomes
\* alone determine, as with a callback that never raises.
C7_CallbackExceptionCaught ==
    (IsDebate /\ CallbackRaised) =>
        /\ raised \in {None} \cup TransportFailures
        /\ TransportFailed => ~returned
        /\ Len(hookLog) = Len(Rounds(transcript)) + Len(transcript.synthesis)
        /\ RanToEnd =>
              /\ raised = None
              /\ returned
              /\ CompleteDebate
              /\ Len(hookLog) = transcript.max_rounds + 2

\* A debate has returned complete after the callback raised on round 0 and
\* was invoked again for the two later rounds and the synthesis round.
C7_Witness ==
    /\ IsDebate /\ returned
    /\ transcript.max_rounds = 2
    /\ Len(hookLog) = 4
    /\ hookLog[1].status = "raise"
    /\ hookLog[2].status = "ok" /\ hookLog[4].status = "ok"
    /\ Len(Rounds(transcript)) = 3 /\ transcript.synthesis # <<>>

\* ------------------------------------------------------------------------
\* Round numbering
\* ------------------------------------------------------------------------
\* C8 as stated: the round numbers of every transcript a fresh debate or a
\* replay returns are exactly 0, 1, ..., K - 1 for some K >= 1.
C8_NumberedFromZeroAtLeastOne ==
    returned =>
        /\ NumberedFromZero(Rounds(transcript))
        /\ Len(Rounds(transcript)) >= 1

\* C8, amended: the round numbers of every transcript a fresh debate or a
\* replay returns, and of every transcript the page saves, are exactly
\* 0, 1, ..., K - 1 for some K >= 0, strictly increasing, starting at 0, with
\* no gap and no repeat; K >= 1 for every fresh debate that runs to
\* completion and for every replay of a source that has a round, and K = 0
\* for the partial transcript of a debate cancelled before round 0 was
\* appended and for the replay of such a transcript.
C8_NumberedFromZero ==
    /\ returned =>
          /\ NumberedFromZero(Rounds(transcript))
          /\ (IsDebate \/ args.source_rounds # <<>>) => Len(Rounds(transcript)) >= 1
          /\ (IsReplay /\ args.source_rounds = <<>>) => Rounds(transcript) = <<>>
    /\ \A n \in 1..Len(store) : NumberedFromZero(store[n].rounds)

\* A replay of a cancelled transcript without rounds has returned a
\* transcript without rounds.
C8_WitnessEmpty ==
    /\ IsReplay /\ returned
    /\ args.source_rounds = <<>>
    /\ Rounds(transcript) = <<>>
    /\ transcript.synthesis # <<>>

\* ------------------------------------------------------------------------
\* Replay
\* ------------------------------------------------------------------------
\* C9: run_replay never modifies its source.  The source's id, rounds list
\* with every response in it, synthesis and metadata are at every moment
\* what they were before the call, and the result is a transcript of its
\* own whose first len(source.rounds) rounds equal the source's.
C9_SourceUntouched ==
    IsReplay =>
        /\ source = args.source
        /\ heap[source.rounds] = args.source_rounds
        /\ returned =>
              /\ transcript.transcript_id # source.transcript_id
              /\ transcript.rounds # source.rounds
              /\ Len(Rounds(transcript)) >= Len(args.source_rounds)
              /\ SubSeq(Rounds(transcript), 1, Len(args.source_rounds)) = args.source_rounds

\* A replay with a synthesizer override and two additional rounds has
\* returned.
C9_Witness ==
    /\ IsReplay /\ returned
    /\ args.additional_rounds = 2 /\ args.synthesizer # None
    /\ Len(args.source_rounds) = 2
    /\ Len(Rounds(transcript)) = 4

\* The prompt of the synthesis call over the given rounds.
SynthesisOver(rounds) ==
    _run_synthesis_request(source.query, transcript.synthesizer_id, rounds)

\* C10: a replay with M additional rounds.  With M = 0 no panel call is
\* dispatched and the synthesis is built over the copied rounds.  With
\* M > 0 exactly M reflection rounds are run, each built from the responses
\* of the round before it (the first from the source's last round), numbered
\* len(source.rounds), len(source.rounds) + 1, ..., and the result holds
\* len(source.rounds) + M rounds.
C10_ReplayRounds ==
    (IsReplay /\ args.additional_rounds >= 0) =>
        /\ pc = "round" =>
              /\ round_num = Len(Rounds(transcript))
              /\ round_num < Len(args.source_rounds) + args.additional_rounds
              /\ requests = _run_reflection_round_requests(
                                source.query, source.panel,
                                Last(Rounds(transcript)).responses, round_num,
                                args.panelist_context)
        /\ pc = "synthesis" =>
              /\ Len(Rounds(transcript)) = Len(args.source_rounds) + args.additional_rounds
              /\ requests = <<SynthesisOver(Rounds(transcript))>>
              /\ args.additional_rounds = 0 =>
                    /\ dispatchLog = <<-1>>
                    /\ requests = <<SynthesisOver(args.source_rounds)>>
        /\ pc = "done" =>
              /\ returned
              /\ Len(Rounds(transcript)) = Len(args.source_rounds) + args.additional_rounds
              /\ \A k \in 1..Len(Rounds(transcript)) :
                    k > Len(args.source_rounds) =>
                        /\ Rounds(transcript)[k].round_number = k - 1
                        /\ Rounds(transcript)[k].round_type = "reflection"
                        /\ WholeRound(Rounds(transcript)[k], source.panel)

\* ------------------------------------------------------------------------
\* Replay: argument check and provenance
\* ------------------------------------------------------------------------
\* C11: run_replay with a negative additional-round count fails with
\* ValueError before anything else happens: no provider client has been
\* opened, no model call dispatched, the callback not invoked, and no
\* transcript built, returned or given an id.
C11_NegativeRoundsRejected ==
    (IsReplay /\ args.additional_rounds < 0 /\ pc # "start") =>
        /\ pc = "done"
        /\ raised = "ValueError"
        /\ router = NoRouter
        /\ dispatchLog = <<>> /\ requests = <<>>
        /\ hookLog = <<>>
        /\ ~returned
        /\ transcript = NoTranscript /\ nextId = 2
        /\ heap = [r \in {SrcRef, NewRef} |->
                      IF r = SrcRef THEN args.source_rounds ELSE <<>>]

\* A replay asked for -1 additional rounds has ended with the ValueError.
C11_Witness ==
    /\ IsReplay /\ args.additional_rounds = -1
    /\ pc = "done" /\ raised = "ValueError"

\* C12: the transcript a replay returns has an id other than the source's,
\* the source's query and panel, max_rounds = source.max_rounds + M, the
\* override as synthesizer if one was given and the source's otherwise; its
\* metadata names the source's id and records the override and M.
C12_ReplayProvenance ==
    (IsReplay /\ returned) =>
        /\ transcript.transcript_id # args.source.transcript_id
        /\ transcript.query = args.source.query
        /\ transcript.panel = args.source.panel
        /\ transcript.max_rounds = args.source.max_rounds + args.additional_rounds
        /\ transcript.synthesizer_id =
              IF args.synthesizer # None THEN args.synthesizer
              ELSE args.source.synthesizer_id
        /\ transcript.metadata.source_transcript_id = <<args.source.transcript_id>>
        /\ transcript.metadata.replay_config =
              <<[synthesizer_override |-> args.synthesizer,
                 additional_rounds |-> args.additional_rounds]>>

\* A replay with a synthesizer override and one additional round returned.
C12_Witness ==
    /\ IsReplay /\ returned /\ pc = "done"
    /\ args.synthesizer = "gpt" /\ args.source.synthesizer_id = "claude"
    /\ args.additional_rounds = 1

\* ------------------------------------------------------------------------
\* Reflection prompts
\* ------------------------------------------------------------------------
\* The responses of the round before the one in flight.
PreviousRound == Last(Rounds(transcript)).responses

\* The previous response of alias X: the latest one that bears the alias.
OwnSlots(prev, X) == {j \in 1..Len(prev) : prev[j].model_alias = X}

OwnSlot(prev, X) == CHOOSE j \in OwnSlots(prev, X) : \A k \in OwnSlots(prev, X) : k <= j

\* The previous responses of the other aliases that carry no error.
PeerSlots(prev, X) ==
    {j \in 1..Len(prev) : prev[j].model_alias # X /\ prev[j].error = None}

\* C13: in every reflection round the prompt of member X holds X's own
\* previous response, or the placeholder when that response is missing or
\* has an error, and exactly one peer block for every previous-round
\* response of another alias that has no error, in the order of the
\* previous round: none for X itself, none for a peer whose call failed,
\* and no block at all when every peer has failed.
C13_ReflectionPrompt ==
    (pc = "round" /\ RoundType = "reflection") =>
        /\ Len(requests) = Len(PanelOfCall)
        /\ \A i \in 1..Len(requests) :
              LET X == PanelOfCall[i]
                  p == requests[i].prompt
                  prev == PreviousRound
              IN  /\ requests[i].model_alias = X
                  /\ p.kind = "reflection"
                  /\ p.own = IF OwnSlots(prev, X) = {} THEN Placeholder
                             ELSE IF prev[OwnSlot(prev, X)].error # None THEN Placeholder
                             ELSE prev[OwnSlot(prev, X)].content
                  /\ Len(p.others) = Cardinality(PeerSlots(prev, X))
                  /\ \A k \in 1..Len(p.others) :
                        /\ p.others[k][1] # X
                        /\ \E j \in PeerSlots(prev, X) :
                              /\ Cardinality({h \in PeerSlots(prev, X) : h < j}) = k - 1
                              /\ p.others[k] = <<prev[j].model_alias, prev[j].content>>
                  /\ (\A j \in 1..Len(prev) :
                         prev[j].model_alias # X => prev[j].error # None)
                        => p.others = <<>>

\* Round 1 of a claude / gpt panel is in flight after gpt's call of round 0
\* failed: claude's prompt holds its own reply and no peer block, gpt's
\* prompt holds the placeholder and one block, claude's.
C13_Witness ==
    /\ pc = "round" /\ round_num = 1 /\ IsDebate
    /\ transcript.panel = <<"claude", "gpt">>
    /\ PreviousRound[1].error = None /\ PreviousRound[2].error # None
    /\ requests[1].prompt.own = <<0, 1>> /\ requests[1].prompt.others = <<>>
    /\ requests[2].prompt.own = Placeholder
    /\ requests[2].prompt.others = <<(<<"claude", <<0, 1>> >>)>>

\* ------------------------------------------------------------------------
\* Ground-truth scoring
\* ------------------------------------------------------------------------
\* Positions of the scoring dispatches (round number -2).
ScoringDispatches == {k \in 1..Len(dispatchLog) : dispatchLog[k] = -2}

\* A ground truth was supplied and the synthesis response has no error.
Scorable ==
    /\ args.ground_truth # None
    /\ transcript.synthesis # <<>>
    /\ transcript.synthesis[1].error = None

\* C14: a score is recorded if and only if a ground truth was supplied and
\* the synthesis has no error.  Then the scoring call (round -2) is issued
\* exactly once, right after the synthesis call and to the synthesizer's
\* alias, and metadata.scores.synthesis_score equals
\* synthesis.analysis.ground_truth_score; otherwise no scoring call is
\* issued and neither field is present.
C14_ScoreIffGroundTruth ==
    /\ Cardinality(ScoringDispatches) <= 1
    /\ \A k \in ScoringDispatches :
          /\ Scorable
          /\ k = Len(dispatchLog) /\ k > 1 /\ dispatchLog[k - 1] = -1
    /\ pc = "scoring" =>
          /\ Len(requests) = 1
          /\ requests[1].alias_or_id = transcript.synthesizer_id
          /\ requests[1].model_alias = transcript.synthesizer_id
          /\ requests[1].round_number = -2
    /\ transcript.metadata.scores # <<>> =>
          /\ Scorable /\ ScoringDispatches # {}
          /\ transcript.synthesis[1].analysis # <<>>
          /\ transcript.metadata.scores[1].synthesis_score =
                transcript.synthesis[1].analysis[1]
          /\ transcript.metadata.scores[1].judge_model = transcript.synthesizer_id
          /\ transcript.metadata.scores[1].ground_truth = args.ground_truth
    /\ (transcript.synthesis # <<>> /\ transcript.synthesis[1].analysis # <<>>) =>
          transcript.metadata.scores # <<>>
    /\ returned =>
          /\ Scorable <=> transcript.metadata.scores # <<>>
          /\ Scorable <=> ScoringDispatches # {}

\* A call with a ground truth returned with the score in both places.
C14_Witness ==
    /\ returned /\ args.ground_truth # None
    /\ transcript.metadata.scores # <<>>
    /\ transcript.synthesis[1].analysis = <<transcript.metadata.scores[1].synthesis_score>>
    /\ dispatchLog[Len(dispatchLog)] = -2

\* A call with a ground truth returned without a score: the synthesis failed.
C14_WitnessNoScore ==
    /\ returned /\ args.ground_truth # None
    /\ transcript.synthesis[1].error # None
    /\ transcript.metadata.scores = <<>> /\ ScoringDispatches = {}

\* The judge's reply does not yield two numbers.
Unparseable(content) ==
    \/ content.accuracy \notin {"0", "4", "5", "7"}
    \/ content.completeness \notin {"0", "4", "5", "7"}

\* C15: when the judge's output cannot be parsed (the empty content of a
\* failed judge call included) nothing is raised and the call completes; the
\* score recorded has accuracy = completeness = overall = -1 and the
\* explanation says that the output could not be parsed.
C15_UnparseableJudge ==
    (judge_reply # <<>> /\ Unparseable(judge_reply[1].content)) =>
        /\ raised = None
        /\ returned
        /\ pc \in {"done", "post_render"}
        /\ transcript.metadata.scores # <<>>
        /\ transcript.metadata.scores[1].synthesis_score =
              [accuracy |-> -1, completeness |-> -1, overall |-> <<-1, 1>>,
               explanation |-> "Judge output could not be parsed",
               judge_model |-> transcript.synthesizer_id]
        /\ transcript.synthesis[1].analysis =
              <<transcript.metadata.scores[1].synthesis_score>>

\* The judge call failed and the call returned with the error score.
C15_Witness ==
    /\ judge_reply # <<>> /\ judge_reply[1].error # None
    /\ judge_reply[1].content = EmptyText
    /\ returned /\ pc = "done"
    /\ transcript.metadata.scores[1].synthesis_score.accuracy = -1

\* The judge answered with a score that is not a number.
C15_WitnessText ==
    /\ judge_reply # <<>> /\ judge_reply[1].error = None
    /\ judge_reply[1].content = JudgeText("n/a", "5")
    /\ returned /\ pc = "done"
    /\ transcript.metadata.scores[1].synthesis_score.overall = <<-1, 1>>

\* The judge's scores were parsed and clamped to 1..5.
C15_WitnessParsed ==
    /\ judge_reply # <<>> /\ judge_reply[1].content = JudgeText("7", "0")
    /\ returned
    /\ transcript.metadata.scores[1].synthesis_score.accuracy = 5
    /\ transcript.metadata.scores[1].synthesis_score.completeness = 1
    /\ transcript.metadata.scores[1].synthesis_score.overall = <<6, 2>>

\* ------------------------------------------------------------------------
\* Router: decisions, clients, dispatch
\* ------------------------------------------------------------------------
\* The routing table of the call with the entry of alias a set to m.
WithOverride(config, a, m) == [config EXCEPT !.routing[a] = m]

\* The mode that applies to alias a: its override if it has one.
EffectiveMode(a) ==
    IF a \in Aliases /\ args.config.routing[a] # None THEN args.config.routing[a]
    ELSE args.config.routing["default_mode"]

\* The vendor of alias a has a key and a direct implementation (of the two
\* vendors only Anthropic has one).
DirectPossible(a) == a = "claude" /\ "anthropic" \in args.config.providers

\* The responses the router has returned to the call so far.
RoutedResponses ==
    {results[i][1] : i \in {j \in 1..Len(results) : results[j] # <<>>}}
    \cup {Rounds(transcript)[k].responses[i] :
             k \in (CopiedRounds + 1)..Len(Rounds(transcript)),
             i \in 1..Len(transcript.panel)}
    \cup {transcript.synthesis[i] : i \in 1..Len(transcript.synthesis)}

\* C16: the decision for an alias follows its mode, the per-alias override
\* if there is one and the default otherwise: in aggregator mode it is
\* via-aggregator; in direct and in auto mode it is direct when the vendor
\* has a configured key and a direct implementation and via-aggregator
\* otherwise, with a warning in direct mode and none in auto mode.  The
\* override of one alias never changes the decision for another.
C16_RouteDecision ==
    /\ \A a \in Aliases :
          /\ route(args.config, a).mode = EffectiveMode(a)
          /\ EffectiveMode(a) = "openrouter" => route(args.config, a).via_openrouter
          /\ EffectiveMode(a) \in {"direct", "auto"} =>
                (route(args.config, a).via_openrouter <=> ~DirectPossible(a))
          /\ route_warning(args.config, a) # None <=>
                (EffectiveMode(a) = "direct" /\ ~DirectPossible(a))
          /\ \A b \in Aliases \ {a}, m \in Modes \cup {None} :
                /\ route(WithOverride(args.config, a, m), b) = route(args.config, b)
                /\ route_warning(WithOverride(args.config, a, m), b)
                      = route_warning(args.config, b)
    /\ \A r \in RoutedResponses :
          r.routing = <<[vendor |-> IF r.model_alias = "claude" THEN "anthropic"
                                    ELSE IF r.model_alias = "gpt" THEN "openai"
                                    ELSE IF r.model_alias = "gemini" THEN "google"
                                    ELSE "xai",
                         mode |-> EffectiveMode(r.model_alias),
                         via_openrouter |->
                             \/ EffectiveMode(r.model_alias) = "openrouter"
                             \/ ~DirectPossible(r.model_alias)]>>
    /\ \A w \in router.warnings :
          EffectiveMode(w[1]) = "direct" /\ ~DirectPossible(w[1])
    /\ \A i \in 1..Len(requests) :
          (EffectiveMode(requests[i].alias_or_id) = "direct"
             /\ ~DirectPossible(requests[i].alias_or_id))
            => \E w \in router.warnings : w[1] = requests[i].alias_or_id

\* With the aggregator as default mode and claude overridden to direct, one
\* fan-out has answered claude directly and gpt through the aggregator.
C16_Witness ==
    /\ args.config.routing["default_mode"] = "openrouter"
    /\ args.config.routing["claude"] = "direct"
    /\ pc = "round" /\ GatherDone(results) /\ Len(results) = 2
    /\ results[1][1].routing = <<RoutingDecision("anthropic", "direct", FALSE)>>
    /\ results[2][1].routing = <<RoutingDecision("openai", "openrouter", TRUE)>>
    /\ router.warnings = {}

\* A direct-mode request fell back: without a key for claude, without an
\* implementation for gpt, each with its warning.
C16_WitnessFallback ==
    /\ args.config.routing["default_mode"] = "direct"
    /\ pc = "round" /\ GatherDone(results) /\ Len(results) = 2
    /\ results[1][1].routing = <<RoutingDecision("anthropic", "direct", TRUE)>>
    /\ results[2][1].routing = <<RoutingDecision("openai", "direct", TRUE)>>
    /\ "openai" \in args.config.providers
    /\ router.warnings = {<<"claude", "no API key">>,
                          <<"gpt", "no provider implementation">>}

\* In auto mode the fallback is silent.
C16_WitnessAuto ==
    /\ args.config.routing["default_mode"] = "auto"
    /\ args.config.routing["claude"] = None
    /\ "anthropic" \notin args.config.providers
    /\ pc = "round" /\ GatherDone(results) /\ Len(results) = 2
    /\ results[1][1].routing = <<RoutingDecision("anthropic", "auto", TRUE)>>
    /\ router.warnings = {}

\* The client the decision for alias a points to is open.
ClientOpenFor(a) ==
    IF EffectiveMode(a) = "openrouter" \/ ~DirectPossible(a)
    THEN "openrouter" \in args.config.providers
    ELSE TRUE

\* C17: every response the router returns, successful or not, carries a
\* routing decision.  When the decision points to a client that is not open
\* nothing is raised: the response is an error response built by the
\* router, with the request's alias and round number, the alias as model
\* ID, empty content, and the decision attached.
C17_RoutingAttached ==
    /\ \A r \in RoutedResponses : Len(r.routing) = 1
    /\ raised \notin {"RuntimeError", "KeyError"}
    /\ \A i \in 1..Len(results) :
          (results[i] # <<>> /\ ~ClientOpenFor(requests[i].alias_or_id)) =>
              /\ results[i][1].error = NoProvider
              /\ results[i][1].content = NoContent
              /\ results[i][1].model_alias = requests[i].model_alias
              /\ results[i][1].round_number = requests[i].round_number
              /\ results[i][1].model_id = <<requests[i].alias_or_id>>
              /\ results[i][1].routing[1].via_openrouter
    /\ \A r \in RoutedResponses :
          r.error = NoProvider <=> ~ClientOpenFor(r.model_alias)

\* With a key for Anthropic alone a fan-out has answered claude directly
\* and gpt with the router's own error response, both with a decision.
C17_Witness ==
    /\ args.config.providers = {"anthropic"}
    /\ pc = "round" /\ GatherDone(results) /\ Len(results) = 2
    /\ results[1][1].error = None
    /\ results[1][1].routing = <<RoutingDecision("anthropic", "auto", FALSE)>>
    /\ results[2][1].error = NoProvider
    /\ results[2][1].routing = <<RoutingDecision("openai", "auto", TRUE)>>

\* A call that failed at its provider carries the decision as well.
C17_WitnessCallError ==
    /\ pc = "round" /\ Len(results) = 2 /\ results[1] # <<>>
    /\ results[1][1].error \in CallErrors
    /\ Len(results[1][1].routing) = 1

\* The clients a configuration calls for: the aggregator's if its key is
\* configured, Anthropic's if its key is configured (no other vendor has a
\* direct implementation).
ExpectedClients == args.config.providers \cap {"openrouter", "anthropic"}

\* The router scope has been entered and left.
ScopeOver == router.opened # {} /\ ~router.entered

\* C18: on scope entry the router opens the aggregator client if and only
\* if an aggregator key is configured, and a vendor's direct client if and
\* only if that vendor's key is configured and an implementation exists.
\* Once the scope is left, by return, by an exception or by cancellation,
\* every client that was opened is closed and none remains registered.
C18_ClientLifecycle ==
    /\ router.entered => router.clients = ExpectedClients
    /\ router.entered <=> (pc \in SuspensionPoints \ {"post_render"})
    /\ router.opened \in {{}, ExpectedClients}
    /\ ~router.entered => /\ router.clients = {}
                           /\ router.closed = router.opened
    /\ (returned \/ cancelAt # <<>> \/ raised \notin {None, "ValueError"})
          => /\ ~router.entered
             /\ router.opened = ExpectedClients
             /\ router.closed = ExpectedClients

\* The debate was cancelled while calls were in flight: both clients had
\* been opened and both are closed.
C18_Witness ==
    /\ cancelAt # <<>> /\ cancelAt[1].pc = "round"
    /\ ScopeOver
    /\ router.opened = {"openrouter", "anthropic"}
    /\ router.closed = {"openrouter", "anthropic"}
    /\ router.clients = {}

\* The replay left the scope with an IndexError, the clients closed.
C18_WitnessRaise ==
    /\ raised = "IndexError" /\ ScopeOver
    /\ router.closed = {"openrouter", "anthropic"}

\* A key for OpenAI alone opens no client: calls are in flight and no
\* client is registered.
C18_WitnessUnusedKey ==
    /\ args.config.providers = {"openai"}
    /\ pc = "round" /\ router.entered /\ router.clients = {}

\* The response slot i of a fan-out must return for request req: the
\* request's alias and round number, the reply of the call made for that
\* slot unless it failed, and the model ID of the route that was decided
\* (the aggregator's ID through the aggregator, the vendor's own ID through
\* the vendor's client, the bare alias when no client took the call).
AnswersRequest(r, req, i) ==
    /\ r.model_alias = req.model_alias
    /\ r.round_number = req.round_number
    /\ r.error = None => r.content = <<req.round_number, i>>
    /\ r.error # None => r.content = NoContent
    /\ Len(r.routing) = 1
    /\ r.routing[1].via_openrouter <=>
          (EffectiveMode(req.alias_or_id) = "openrouter"
             \/ ~DirectPossible(req.alias_or_id))
    /\ r.model_id =
          IF r.error = NoProvider THEN <<req.alias_or_id>>
          ELSE IF r.routing[1].via_openrouter THEN <<req.alias_or_id, "openrouter">>
          ELSE <<req.alias_or_id, "direct">>

\* C19: a fan-out returns exactly one response per request, in the order of
\* the requests whatever the order in which the calls finished, also when
\* the requests go to different providers: each response comes from the
\* client its route points to, with the model ID of that route.
C19_ParallelOrder ==
    /\ (pc = "round" /\ GatherDone(results)) =>
          /\ Len(complete_parallel(results, doneOrder)) = Len(requests)
          /\ \A i \in 1..Len(requests) :
                AnswersRequest(complete_parallel(results, doneOrder)[i], requests[i], i)
    /\ pc = "in_hook" =>
          /\ Len(responses) = Len(PanelOfCall)
          /\ \A i \in 1..Len(responses) :
                AnswersRequest(responses[i],
                               Request(PanelOfCall[i], format_initial(args.query),
                                       round_num),
                               i)

\* The fan-out of round 0 has returned claude's direct response first and
\* gpt's aggregator response second, although gpt's call finished first.
C19_Witness ==
    /\ pc = "in_hook" /\ round_num = 0
    /\ doneOrder = <<2, 1>>
    /\ Len(responses) = 2
    /\ responses[1].model_id = <<"claude", "direct">>
    /\ responses[1].content = <<0, 1>>
    /\ responses[1].routing[1].via_openrouter = FALSE
    /\ responses[2].model_id = <<"gpt", "openrouter">>
    /\ responses[2].content = <<0, 2>>
    /\ responses[2].routing[1].via_openrouter = TRUE

\* ------------------------------------------------------------------------
\* Provider: failures of one call
\* ------------------------------------------------------------------------
\* C20: inside an open scope a provider's complete never raises for a
\* transport error (a connection failure), a timeout or a non-2xx status:
\* every such call ends as a response with a non-empty error and empty
\* content, so no transport failure ever leaves a call.
C20_ProviderNeverRaises ==
    /\ ~TransportFailed
    /\ \A r \in RoutedResponses :
          r.error # None => r.error # "" /\ r.content = NoContent

\* What holds of the failures the provider does handle: a timeout or a
\* status other than 200 ends as a response with the error set and empty
\* content, in the slot of its request.
C20_CaughtFailuresReturned ==
    \A i \in 1..Len(results) :
        (results[i] # <<>> /\ results[i][1].error \in CallErrors) =>
            /\ results[i][1].content = NoContent
            /\ results[i][1].model_alias = requests[i].model_alias
            /\ results[i][1].round_number = requests[i].round_number

\* A connection failure of a call in flight has ended a debate.
C20_ConnectionFailureRaised ==
    /\ IsDebate /\ raised = "ConnectError" /\ pc = "done"
    /\ ~returned /\ router.closed # {}

\* ------------------------------------------------------------------------
\* A component on its own: the rest of the program is not running
\* ------------------------------------------------------------------------
NoCall ==
    /\ args = [op |-> "none"]
    /\ source = NoSource
    /\ heap = [r \in {SrcRef, NewRef} |-> <<>>]
    /\ InitCommon

\* ------------------------------------------------------------------------
\* OpenRouterProvider: the scope of one client
\* ------------------------------------------------------------------------
\* the aggregator's model ID a caller passes
ProviderModelIds == {resolve_model("claude", FALSE)}

\* how the caller gave the conversation: prompt=, messages=, both, neither
Given == {"prompt", "messages", "both", "neither"}

\* what client.post does: a reply, a timeout, a refused connection
PostOutcomes == Outcomes \cup TransportFailures

\* OpenRouterProvider.__init__
NewProvider ==
    [_client |-> <<>>, scope |-> "new", created |-> 0, pool |-> {},
     posts |-> <<>>, calls |-> <<>>]

\* Provider._resolve_messages: exactly one of messages and prompt
_resolve_messages(given) ==
    IF given \in {"both", "neither"} THEN "ValueError" ELSE None

\* OpenRouterProvider.complete without its first statement.
complete_Unguarded(self, model_id, alias, given, outcome) ==
    IF _resolve_messages(given) # None
    THEN [raised |-> "ValueError", posted |-> FALSE, response |-> <<>>]
    ELSE IF outcome \in TransportFailures
    THEN [raised |-> outcome, posted |-> TRUE, response |-> <<>>]
    ELSE [raised |-> None, posted |-> TRUE,
          response |-> <<[ProviderComplete(
                              [model_alias |-> alias, round_number |-> 0],
                              Len(self.calls) + 1, outcome)
                            EXCEPT !.model_id = model_id]>>]

\* OpenRouterProvider.complete: the outcome of one call, as what it raised,
\* whether client.post was called, and the response it returned.
complete(self, model_id, alias, given, outcome) ==
    IF self._client = <<>>
    THEN [raised |-> "RuntimeError", posted |-> FALSE, response |-> <<>>]
    ELSE IF _resolve_messages(given) # None
    THEN [raised |-> "ValueError", posted |-> FALSE, response |-> <<>>]
    ELSE IF outcome \in TransportFailures
    THEN [raised |-> outcome, posted |-> TRUE, response |-> <<>>]
    ELSE [raised |-> None, posted |-> TRUE,
          response |-> <<[ProviderComplete(
                              [model_alias |-> alias, round_number |-> 0],
                              Len(self.calls) + 1, outcome)
                            EXCEPT !.model_id = model_id]>>]

\* __aenter__: a new httpx.AsyncClient becomes self._client
aenter ==
    /\ provider.scope # "open"
    /\ provider.created < MaxScopes
    /\ provider' = [provider EXCEPT
                      !._client = <<provider.created + 1>>,
                      !.scope = "open",
                      !.created = @ + 1,
                      !.pool = @ \cup {provider.created + 1}]
    /\ UNCHANGED <<orchestrator_vars, pricing_cache, files>>

\* __aexit__: aclose() the client, if there is one, and forget it
aexit ==
    /\ provider.scope = "open"
    /\ provider' = [provider EXCEPT
                      !.pool = IF provider._client # <<>>
                               THEN @ \ {provider._client[1]} ELSE @,
                      !._client = <<>>,
                      !.scope = "closed"]
    /\ UNCHANGED <<orchestrator_vars, pricing_cache, files>>

\* await provider.complete(model_id, ...), in whatever state the scope is
CompleteCalled(model_id, given, outcome) ==
    /\ Len(provider.calls) < MaxCalls
    /\ LET alias == model_id[1]
           out == complete(provider, model_id, alias, given, outcome)
       IN provider' = [provider EXCEPT
              !.posts = IF out.posted
                        THEN Append(@, [model |-> model_id, via |-> provider._client])
                        ELSE @,
              !.calls = Append(@, [during |-> provider.scope,
                                   model_id |-> model_id,
                                   raised |-> out.raised,
                                   posted |-> out.posted,
                                   response |-> out.response])]
    /\ UNCHANGED <<orchestrator_vars, pricing_cache, files>>

ProviderInit ==
    /\ NoCall
    /\ provider = NewProvider
    /\ pricing_cache = <<>>
    /\ files = <<>>

ProviderNext ==
    \/ aenter
    \/ aexit
    \/ \E model_id \in ProviderModelIds, given \in Given, outcome \in PostOutcomes :
          CompleteCalled(model_id, given, outcome)

ProviderSpec == ProviderInit /\ [][ProviderNext]_vars

\* C21: a provider client accepts complete calls only while its scope is
\* open: a call made before the scope was entered or after it was left
\* fails with the not-initialized RuntimeError and posts nothing, every
\* request that was posted went through the client of an open scope, and
\* once the scope is left the provider holds no client and no connection
\* pool is left open.
C21_ScopeGuardsCalls ==
    /\ \A k \in 1..Len(provider.calls) :
          LET c == provider.calls[k]
          IN /\ c.during # "open" =>
                   c.raised = "RuntimeError" /\ ~c.posted /\ c.response = <<>>
             /\ c.during = "open" => c.raised # "RuntimeError"
             /\ c.posted => c.during = "open"
    /\ \A k \in 1..Len(provider.posts) : provider.posts[k].via # <<>>
    /\ Len(provider.posts) =
          Cardinality({k \in 1..Len(provider.calls) : provider.calls[k].posted})
    /\ provider.scope # "open" => provider._client = <<>> /\ provider.pool = {}
    /\ provider.scope = "open" => provider.pool = {provider._client[1]}

\* A call before the scope, an answered call inside it and a call after it.
C21_Witness ==
    /\ Len(provider.calls) = 3
    /\ provider.calls[1].during = "new" /\ provider.calls[1].raised = "RuntimeError"
    /\ provider.calls[2].during = "open" /\ provider.calls[2].raised = None
    /\ provider.calls[2].response # <<>>
    /\ provider.calls[3].during = "closed"
    /\ provider.calls[3].raised = "RuntimeError"
    /\ Len(provider.posts) = 1
    /\ provider.scope = "closed" /\ provider.created = 1

\* A scope entered a second time after it was left accepts calls again.
C21_WitnessReopened ==
    /\ provider.created = 2 /\ provider.scope = "open"
    /\ Len(provider.calls) >= 2
    /\ provider.calls[Len(provider.calls)].posted
    /\ provider.calls[Len(provider.calls) - 1].during = "closed"

\* ------------------------------------------------------------------------
\* PricingCache and _compute_stats
\* ------------------------------------------------------------------------
\* Prices are counted in millionths of a dollar per token.
ModelPricing(prompt_price, completion_price) ==
    [prompt_price |-> prompt_price, completion_price |-> completion_price]

\* The catalog of the models endpoint: aggregator model ID -> pricing.
Catalog ==
    [id \in {resolve_model(a, FALSE) : a \in Aliases} |->
        IF id[1] = "claude" THEN ModelPricing(3, 15) ELSE ModelPricing(5, 10)]

EmptyCatalog == [id \in {} |-> ModelPricing(0, 0)]

\* What the GET of _fetch_all can meet: a catalog, a catalog one entry of
\* which has a price that is not a number, a catalog without entries, a
\* network failure, a status other than 200, a body that is not JSON, and
\* a JSON body that is not the object the parser expects (a list, a string,
\* null, entries that are not objects).
FetchOutcomes ==
    {"catalog", "entry_skipped", "empty_catalog", "network", "status",
     "malformed", "wrong_shape"}

FailedFetches == {"network", "status", "malformed"}

\* _parse_pricing_response on the bodies it can read: entries with a
\* missing or unparseable price are skipped.
_parse_pricing_response(body) ==
    CASE body = "catalog" -> Catalog
      [] body = "entry_skipped" ->
            [id \in {resolve_model("gpt", FALSE)} |-> Catalog[id]]
      [] OTHER -> EmptyCatalog

\* PricingCache._fetch_all: the value _cache has afterwards (<<>> is None)
\* and the exception that left it.  httpx.HTTPError, ValueError, KeyError
\* and TypeError are caught; data.get(...) on a body that is not an object
\* raises AttributeError, which is not.
_fetch_all(outcome) ==
    CASE outcome \in FailedFetches ->
            [_cache |-> <<EmptyCatalog>>, raised |-> None]
      [] outcome = "wrong_shape" ->
            [_cache |-> <<>>, raised |-> "AttributeError"]
      [] OTHER ->
            [_cache |-> <<_parse_pricing_response(outcome)>>, raised |-> None]

\* PricingCache.__init__: the reverse map, direct model ID -> aggregator ID
_direct_to_openrouter ==
    [id \in {resolve_model(a, TRUE) : a \in {b \in Aliases : HasDirectId(b)}} |->
        resolve_model(id[1], FALSE)]

\* PricingCache.get_pricing once _cache is a dict: <<>> is None
get_pricing(cache, model_id) ==
    IF DOMAIN cache = {} THEN <<>>
    ELSE IF model_id \in DOMAIN cache THEN <<cache[model_id]>>
    ELSE IF model_id \in DOMAIN _direct_to_openrouter
    THEN IF _direct_to_openrouter[model_id] \in DOMAIN cache
         THEN <<cache[_direct_to_openrouter[model_id]]>> ELSE <<>>
    ELSE <<>>

\* The fields of a ModelResponse that _compute_stats reads; <<>> is None.
CostedResponse(model_id, alias, token_count, input_tokens, output_tokens) ==
    [model_id |-> model_id, model_alias |-> alias, token_count |-> token_count,
     input_tokens |-> input_tokens, output_tokens |-> output_tokens]

\* x or 0
OrZero(x) == IF x = <<>> THEN 0 ELSE x[1]

\* compute_response_cost: <<>> without pricing or without the token split
compute_response_cost(resp, pricing) ==
    IF pricing = <<>> THEN <<>>
    ELSE IF resp.input_tokens = <<>> \/ resp.output_tokens = <<>> THEN <<>>
    ELSE <<resp.input_tokens[1] * pricing[1].prompt_price
           + resp.output_tokens[1] * pricing[1].completion_price>>

\* all_responses of _compute_stats: every round's responses, then the
\* synthesis if there is one
RECURSIVE Flatten(_)
Flatten(rounds) ==
    IF rounds = <<>> THEN <<>> ELSE Head(rounds) \o Flatten(Tail(rounds))

all_responses(t) == Flatten(t.rounds) \o t.synthesis

\* The cost of one response: <<>> when no cache was passed
CostOf(r, cache) ==
    IF cache = <<>> THEN <<>>
    ELSE compute_response_cost(r, get_pricing(cache[1], r.model_id))

RECURSIVE SumOver(_, _, _)
SumOver(rs, cache, what) ==
    IF rs = <<>> THEN 0
    ELSE (CASE what = "tokens" -> OrZero(Head(rs).token_count)
            [] what = "input_tokens" -> OrZero(Head(rs).input_tokens)
            [] what = "output_tokens" -> OrZero(Head(rs).output_tokens)
            [] what = "calls" -> 1
            [] what = "cost_usd" -> OrZero(CostOf(Head(rs), cache)))
         + SumOver(Tail(rs), cache, what)

\* total_cost_usd when it is 0.0 for a debate without any cost
total_cost_usd_ZeroWhenNone(rs, cache) == <<SumOver(rs, cache, "cost_usd")>>

\* "total_cost_usd": total_cost if has_any_cost else None
total_cost_usd(rs, cache) ==
    IF \E k \in 1..Len(rs) : CostOf(rs[k], cache) # <<>>
    THEN <<SumOver(rs, cache, "cost_usd")>> ELSE <<>>

\* total_tokens when a response's count is taken from its token split
total_tokens_FromSplit(rs) ==
    SumOver(rs, <<>>, "input_tokens") + SumOver(rs, <<>>, "output_tokens")

\* total_tokens: the sum of "r.token_count or 0"
total_tokens(rs) == SumOver(rs, <<>>, "tokens")

\* _compute_stats(transcript, pricing_cache): cache is <<>> when no cache
\* was passed, else <<the dict the cache holds>>
_compute_stats(t, cache) ==
    LET rs == all_responses(t)
        of(alias) == SelectSeq(rs, LAMBDA r : r.model_alias = alias)
    IN [total_tokens |-> total_tokens(rs),
        per_model |->
            [alias \in {rs[k].model_alias : k \in 1..Len(rs)} |->
                [tokens |-> SumOver(of(alias), cache, "tokens"),
                 input_tokens |-> SumOver(of(alias), cache, "input_tokens"),
                 output_tokens |-> SumOver(of(alias), cache, "output_tokens"),
                 calls |-> SumOver(of(alias), cache, "calls"),
                 cost_usd |-> SumOver(of(alias), cache, "cost_usd")]],
        total_cost_usd |-> total_cost_usd(rs, cache)]

\* the model IDs looked up: an aggregator ID, a vendor's ID, and the bare
\* alias the router puts on a response no provider served
LookupIds == {resolve_model("gpt", FALSE), resolve_model("claude", TRUE), <<"claude">>}

\* the responses of the transcripts whose stats are computed: a failed
\* call without counts, a reply with the total only, replies with the
\* input/output split
StatResponses ==
    {CostedResponse(<<"claude">>, "claude", <<>>, <<>>, <<>>),
     CostedResponse(resolve_model("gpt", FALSE), "gpt", <<7>>, <<>>, <<>>),
     CostedResponse(resolve_model("gpt", FALSE), "gpt", <<7>>, <<2>>, <<5>>),
     CostedResponse(resolve_model("claude", TRUE), "claude", <<4>>, <<3>>, <<1>>)}

\* transcripts with up to MaxStatRounds rounds of one response and with or
\* without a synthesis
RECURSIVE StatRounds(_)
StatRounds(n) ==
    IF n = 0 THEN {<<>>}
    ELSE StatRounds(n - 1) \cup
         {Append(rounds, <<r>>) : rounds \in {x \in StatRounds(n - 1) : Len(x) = n - 1},
                                  r \in StatResponses}

StatTranscripts ==
    {[rounds |-> rounds, synthesis |-> synthesis] :
        rounds \in StatRounds(MaxStatRounds),
        synthesis \in {<<>>} \cup {<<r>> : r \in StatResponses}}

\* PricingCache.__init__
NewPricingCache ==
    [_cache |-> <<>>, gets |-> 0, calls |-> 0, failed |-> FALSE,
     escaped |-> FALSE, last |-> <<>>, stats |-> <<>>]

\* "if self._cache is None: await self._fetch_all()" at the head of
\* prefetch and get_pricing
Fetched(self, outcome) ==
    IF self._cache # <<>> THEN self
    ELSE [self EXCEPT !._cache = _fetch_all(outcome)._cache,
                      !.gets = @ + 1,
                      !.failed = @ \/ outcome \in FailedFetches,
                      !.escaped = @ \/ _fetch_all(outcome).raised # None]

\* await cache.prefetch()
Prefetch(outcome) ==
    /\ pricing_cache.calls < MaxCalls /\ pricing_cache.stats = <<>>
    /\ LET after == Fetched(pricing_cache, outcome)
       IN pricing_cache' = [after EXCEPT
              !.calls = @ + 1,
              !.last = <<[op |-> "prefetch", model_id |-> <<>>, result |-> <<>>,
                          raised |-> IF after._cache = <<>>
                                     THEN _fetch_all(outcome).raised ELSE None]>>]
    /\ UNCHANGED <<orchestrator_vars, provider, files>>

\* await cache.get_pricing(model_id)
GetPricing(model_id, outcome) ==
    /\ pricing_cache.calls < MaxCalls /\ pricing_cache.stats = <<>>
    /\ LET after == Fetched(pricing_cache, outcome)
       IN pricing_cache' = [after EXCEPT
              !.calls = @ + 1,
              !.last = <<[op |-> "get_pricing", model_id |-> model_id,
                          result |-> IF after._cache = <<>> THEN <<>>
                                     ELSE get_pricing(after._cache[1], model_id),
                          raised |-> IF after._cache = <<>>
                                     THEN _fetch_all(outcome).raised ELSE None]>>]
    /\ UNCHANGED <<orchestrator_vars, provider, files>>

\* transcript.metadata["stats"] = await _compute_stats(transcript,
\* pricing_cache), after at most the prefetch of run_debate; the first
\* get_pricing fetches if nothing was fetched before
ComputeStats(t, with_cache, outcome) ==
    /\ pricing_cache.calls <= 1 /\ pricing_cache.stats = <<>>
    /\ LET after == IF with_cache /\ all_responses(t) # <<>>
                    THEN Fetched(pricing_cache, outcome) ELSE pricing_cache
           raises == with_cache /\ all_responses(t) # <<>> /\ after._cache = <<>>
       IN pricing_cache' = [after EXCEPT
              !.last = <<[op |-> "_compute_stats", model_id |-> <<>>,
                          result |-> <<>>,
                          raised |-> IF raises THEN _fetch_all(outcome).raised
                                     ELSE None]>>,
              !.stats = <<[transcript |-> t, with_cache |-> with_cache,
                           raised |-> raises,
                           result |-> IF raises THEN <<>>
                                      ELSE <<_compute_stats(t,
                                               IF with_cache /\ after._cache # <<>>
                                               THEN after._cache
                                               ELSE <<>>)>>]>>]
    /\ UNCHANGED <<orchestrator_vars, provider, files>>

PricingInit ==
    /\ NoCall
    /\ provider = <<>>
    /\ pricing_cache = NewPricingCache
    /\ files = <<>>

PricingNext ==
    \/ \E outcome \in FetchOutcomes : Prefetch(outcome)
    \/ \E model_id \in LookupIds, outcome \in FetchOutcomes :
          GetPricing(model_id, outcome)
    \/ \E t \in StatTranscripts, with_cache \in BOOLEAN, outcome \in FetchOutcomes :
          ComputeStats(t, with_cache, outcome)

PricingSpec == PricingInit /\ [][PricingNext]_vars

\* Vocabulary of the pricing properties
LastCall == pricing_cache.last[1]
LookedUp == pricing_cache.last # <<>> /\ LastCall.op = "get_pricing"
EmptyFetched == pricing_cache._cache = <<EmptyCatalog>>
StatsComputed == pricing_cache.stats # <<>> /\ ~pricing_cache.stats[1].raised
Stats == pricing_cache.stats[1].result[1]
StatsOf == all_responses(pricing_cache.stats[1].transcript)

\* C22: over the lifetime of one pricing cache any sequence of prefetch and
\* get_pricing calls issues at most one GET, and after a failed fetch
\* (network failure, non-200 status, malformed JSON) the cache is "empty,
\* fetched": every later lookup returns absent and nothing is fetched again.
C22_PrefetchIdempotent ==
    /\ pricing_cache.gets <= 1
    /\ pricing_cache.failed =>
          /\ EmptyFetched
          /\ LookedUp => LastCall.result = <<>> /\ LastCall.raised = None

\* What holds as long as no fetch has met a body of the wrong shape: one
\* GET at most, and a failed fetch leaves the cache empty for good.
C22_HandledFetchesOnce ==
    ~pricing_cache.escaped =>
        /\ pricing_cache.gets <= 1
        /\ pricing_cache.gets = 1 <=> pricing_cache._cache # <<>>
        /\ pricing_cache.failed =>
              /\ EmptyFetched
              /\ LookedUp => LastCall.result = <<>> /\ LastCall.raised = None

\* A second GET: the first fetch met a body of the wrong shape, the
\* AttributeError left the call, and the next call fetched again.
C22_SecondGet ==
    /\ pricing_cache.gets = 2 /\ pricing_cache.escaped
    /\ pricing_cache.calls = 2

\* A failed fetch followed by two lookups that issued no GET.
C22_FailedThenLookups ==
    /\ pricing_cache.failed /\ pricing_cache.gets = 1
    /\ pricing_cache.calls = 3 /\ LookedUp

\* the sum of f over a finite set of indices
RECURSIVE SumAt(_, _)
SumAt(S, f) ==
    IF S = {} THEN 0
    ELSE LET k == CHOOSE x \in S : TRUE IN f[k] + SumAt(S \ {k}, f)

\* The price the cache handed to _compute_stats holds for a model ID, under
\* the ID itself or under the aggregator ID of a vendor's ID.
PriceIn(model_id) ==
    LET held == IF pricing_cache.stats[1].with_cache
                THEN pricing_cache._cache[1] ELSE EmptyCatalog
        key == IF model_id \in DOMAIN held \/ Len(model_id) < 2 THEN model_id
               ELSE <<model_id[1], "openrouter">>
    IN IF key \in DOMAIN held THEN <<held[key]>> ELSE <<>>

\* the responses that yield a cost: priced, with the input/output split
Costed ==
    {k \in 1..Len(StatsOf) :
        /\ PriceIn(StatsOf[k].model_id) # <<>>
        /\ StatsOf[k].input_tokens # <<>>
        /\ StatsOf[k].output_tokens # <<>>}

\* C23: total_cost_usd is the sum of the per-response costs when at least
\* one response yielded a cost and is absent, never 0, when none did; when
\* the catalog could not be fetched the stats are still computed and
\* total_cost_usd is absent.
C23_TotalCost ==
    /\ StatsComputed =>
          /\ Costed # {} =>
                Stats.total_cost_usd =
                    <<SumAt(Costed,
                        [k \in Costed |->
                            StatsOf[k].input_tokens[1]
                                * PriceIn(StatsOf[k].model_id)[1].prompt_price
                            + StatsOf[k].output_tokens[1]
                                * PriceIn(StatsOf[k].model_id)[1].completion_price])>>
          /\ Costed = {} => Stats.total_cost_usd = <<>>
    /\ (pricing_cache.stats # <<>> /\ pricing_cache.failed) =>
          /\ StatsComputed
          /\ Stats.total_cost_usd = <<>>

\* Two priced responses, one under a vendor's model ID, and one without a
\* token split: the total is the sum of the two costs.
C23_Witness ==
    /\ StatsComputed
    /\ Cardinality(Costed) = 2 /\ Len(StatsOf) = 3
    /\ \E k \in Costed : StatsOf[k].model_id = resolve_model("claude", TRUE)
    /\ Stats.total_cost_usd = <<2 * 5 + 5 * 10 + 3 * 3 + 1 * 15>>

\* The prefetch failed and every response carries its token split.
C23_WitnessNoCatalog ==
    /\ StatsComputed /\ pricing_cache.failed
    /\ pricing_cache.stats[1].with_cache
    /\ Len(StatsOf) = 2
    /\ \A k \in 1..Len(StatsOf) : StatsOf[k].input_tokens # <<>>
    /\ Stats.total_cost_usd = <<>>
    /\ Stats.total_tokens > 0

\* C24: total_tokens is the sum of the token counts that are present over
\* every response of every round and the synthesis; absent counts add
\* nothing.
C24_TotalTokens ==
    StatsComputed =>
        LET present == {k \in 1..Len(StatsOf) : StatsOf[k].token_count # <<>>}
        IN /\ Len(StatsOf) =
                 SumAt(1..Len(pricing_cache.stats[1].transcript.rounds),
                       [i \in 1..Len(pricing_cache.stats[1].transcript.rounds) |->
                           Len(pricing_cache.stats[1].transcript.rounds[i])])
                 + Len(pricing_cache.stats[1].transcript.synthesis)
           /\ Stats.total_tokens =
                 SumAt(present, [k \in present |-> StatsOf[k].token_count[1]])

\* Two rounds and a synthesis, one response without a count, one with a
\* count but no split.
C24_Witness ==
    /\ StatsComputed
    /\ Len(pricing_cache.stats[1].transcript.rounds) = 2
    /\ pricing_cache.stats[1].transcript.synthesis # <<>>
    /\ StatsOf[1].token_count = <<>>
    /\ StatsOf[2].token_count = <<7>> /\ StatsOf[2].input_tokens = <<>>
    /\ StatsOf[3].token_count = <<4>>
    /\ Stats.total_tokens = 11

\* ------------------------------------------------------------------------
\* transcript.py: the transcript directory
\* ------------------------------------------------------------------------
\* A transcript ID is a string of IdLen characters, written as a sequence.
Id(first, fifth, last) ==
    [k \in 1..IdLen |->
        IF k = 1 THEN first ELSE IF k = 5 THEN fifth
        ELSE IF k = IdLen THEN last ELSE 0]

\* Four IDs: two that differ in their last character only, one that shares
\* its first four characters with them, one that shares nothing.
TranscriptIds == {Id(1, 0, 0), Id(1, 0, 1), Id(1, 1, 0), Id(2, 0, 0)}

\* created_at, as the UTC day
Days == {1, 2}

\* s[:n]
Take(s, n) == SubSeq(s, 1, IF n < Len(s) THEN n ELSE Len(s))

\* str.startswith
StartsWith(s, prefix) ==
    Len(prefix) <= Len(s) /\ SubSeq(s, 1, Len(prefix)) = prefix

\* DebateTranscript.short_id: transcript_id[:8]
short_id(transcript_id) == Take(transcript_id, ShortIdLen)

\* the saved file of a transcript: its ID and day (the rest is not read by
\* the lookup)
StoredTranscript(transcript_id, day) ==
    [transcript_id |-> transcript_id, created_at |-> day]

\* save_transcript: f"{date_str}_{transcript.short_id}.json"
FileName(t) == <<t.created_at, short_id(t.transcript_id)>>

\* open(filepath, "w") and json.dump: the file is created or replaced
save_transcript(dir, t) ==
    [name \in DOMAIN dir \cup {FileName(t)} |->
        IF name = FileName(t) THEN t ELSE dir[name]]

\* _find_transcript_files: the files whose name's ID part starts with
\* transcript_id[:8] and whose stored full ID starts with transcript_id
_find_transcript_files(dir, transcript_id) ==
    {name \in DOMAIN dir :
        /\ StartsWith(name[2], Take(transcript_id, ShortIdLen))
        /\ StartsWith(dir[name].transcript_id, transcript_id)}

\* load_transcript: None without a match, ValueError("Ambiguous transcript
\* ID ...") with several, else the parsed file
load_transcript(dir, transcript_id) ==
    LET matches == _find_transcript_files(dir, transcript_id)
    IN IF matches = {} THEN [result |-> <<>>, raised |-> None]
       ELSE IF Cardinality(matches) > 1
       THEN [result |-> <<>>, raised |-> "Ambiguous"]
       ELSE [result |-> <<dir[CHOOSE name \in matches : TRUE]>>, raised |-> None]

\* the strings looked up: every prefix of every ID, the empty one included
Lookups == {Take(id, n) : id \in TranscriptIds, n \in 0..IdLen}

EmptyDir == [name \in {} |-> StoredTranscript(<<>>, 0)]

NoFiles == [dir |-> EmptyDir, saved |-> {}, last |-> <<>>]

\* save_transcript(transcript); a transcript keeps its created_at
SaveTranscript(transcript_id, day) ==
    /\ \A t \in files.saved : t.transcript_id = transcript_id => t.created_at = day
    /\ files' = [files EXCEPT
                    !.dir = save_transcript(@, StoredTranscript(transcript_id, day)),
                    !.saved = @ \cup {StoredTranscript(transcript_id, day)}]
    /\ UNCHANGED <<orchestrator_vars, provider, pricing_cache>>

\* load_transcript(transcript_id)
LoadTranscript(transcript_id) ==
    /\ LET out == load_transcript(files.dir, transcript_id)
       IN files' = [files EXCEPT
                       !.last = <<[query |-> transcript_id,
                                   dir |-> files.dir,
                                   saved |-> files.saved,
                                   result |-> out.result,
                                   raised |-> out.raised]>>]
    /\ UNCHANGED <<orchestrator_vars, provider, pricing_cache>>

StoreInit ==
    /\ NoCall
    /\ provider = <<>>
    /\ pricing_cache = <<>>
    /\ files = NoFiles

StoreNext ==
    \/ \E transcript_id \in TranscriptIds, day \in Days :
          SaveTranscript(transcript_id, day)
    \/ \E transcript_id \in Lookups : LoadTranscript(transcript_id)

StoreSpec == StoreInit /\ [][StoreNext]_vars

\* Vocabulary of the store properties
InStore == {files.dir[name] : name \in DOMAIN files.dir}
LastLookup == files.last[1]
\* the stored transcripts, at the time of the last lookup, whose full ID
\* starts with the string
Matching(prefix) ==
    {t \in {LastLookup.dir[name] : name \in DOMAIN LastLookup.dir} :
        StartsWith(t.transcript_id, prefix)}

C25_LookupByPrefix ==
    files.last # <<>> =>
        LET found == Matching(LastLookup.query)
        IN /\ Cardinality(found) = 1 =>
                 LastLookup.raised = None /\ LastLookup.result # <<>>
                 /\ LastLookup.result[1] \in found
           /\ found = {} =>
                 LastLookup.raised = None /\ LastLookup.result = <<>>
           /\ Cardinality(found) > 1 =>
                 LastLookup.raised = "Ambiguous" /\ LastLookup.result = <<>>

\* A one-character string was looked up and a transcript came back.
C25_ShortPrefixAnswered ==
    /\ files.last # <<>>
    /\ Len(LastLookup.query) = 1
    /\ LastLookup.result # <<>> /\ LastLookup.raised = None

\* C28: saving a transcript never overwrites or removes a transcript saved
\* before under another full ID, also when the two share their first 8 ID
\* characters and their creation day: every transcript ever saved is in the
\* store, and of two such transcripts a lookup by the shared short ID fails
\* as ambiguous.
C28_SaveKeepsOthers ==
    /\ \A t \in files.saved : t \in InStore
    /\ (files.last # <<>> /\ Len(LastLookup.query) = ShortIdLen
        /\ Cardinality({t \in LastLookup.saved :
                           StartsWith(t.transcript_id, LastLookup.query)}) > 1)
          => LastLookup.raised = "Ambiguous"

\* What holds of transcripts whose file names differ (another short ID or
\* another day): all of them stay in the store.
C28_OtherNamesKept ==
    \A t \in files.saved :
        (\A u \in files.saved : FileName(u) = FileName(t) => u = t) => t \in InStore

\* Two transcripts with the same short ID saved on the same day: one file.
C28_Overwritten ==
    /\ Cardinality(files.saved) = 2
    /\ \A t \in files.saved : t.created_at = 1 /\ t.transcript_id[1] = 1
                              /\ t.transcript_id[5] = 0
    /\ Cardinality(InStore) = 1

\* Two transcripts with the same short ID saved on different days: the
\* short ID is ambiguous, the full ID finds the transcript.
C28_SharedShortIdBothKept ==
    /\ Cardinality(files.saved) = 2 /\ Cardinality(InStore) = 2
    /\ \A t \in files.saved : t.transcript_id[1] = 1 /\ t.transcript_id[5] = 0
    /\ files.last # <<>> /\ Len(LastLookup.query) = IdLen
    /\ LastLookup.result # <<>>

\* ------------------------------------------------------------------------
\* Scoring: the parsed scores
\* ------------------------------------------------------------------------
\* the number a field of the judge's text stands for
Written(field) ==
    CASE field = "0" -> 0 [] field = "4" -> 4 [] field = "5" -> 5 [] field = "7" -> 7

\* the score recorded for the judge's reply
Recorded == transcript.metadata.scores[1].synthesis_score

\* C26: the score parser clamps accuracy and completeness into 1..5 (a
\* number below 1 becomes 1, a number above 5 becomes 5, a number in range
\* is kept), fails when either field is missing or is not a number, and
\* overall is the arithmetic mean of the two clamped values: 7 and 0 give
\* 5 and 1 and an overall of 3.0.
C26_ClampedMean ==
    /\ \A text \in JudgeTexts :
          LET parsed == parse_score_response(text)
          IN IF Unparseable(text) THEN parsed.raised = "ValueError"
             ELSE /\ parsed.raised = None
                  /\ parsed.accuracy \in 1..5 /\ parsed.completeness \in 1..5
                  /\ Written(text.accuracy) \in 1..5 =>
                        parsed.accuracy = Written(text.accuracy)
                  /\ Written(text.accuracy) > 5 => parsed.accuracy = 5
                  /\ Written(text.accuracy) < 1 => parsed.accuracy = 1
                  /\ Written(text.completeness) \in 1..5 =>
                        parsed.completeness = Written(text.completeness)
                  /\ Written(text.completeness) > 5 => parsed.completeness = 5
                  /\ Written(text.completeness) < 1 => parsed.completeness = 1
    /\ (judge_reply # <<>> /\ transcript.metadata.scores # <<>>
        /\ ~Unparseable(judge_reply[1].content)) =>
          /\ Recorded.accuracy \in 1..5 /\ Recorded.completeness \in 1..5
          /\ Recorded.accuracy =
                parse_score_response(judge_reply[1].content).accuracy
          /\ Recorded.completeness =
                parse_score_response(judge_reply[1].content).completeness
          /\ 2 * Recorded.overall[1] =
                (Recorded.accuracy + Recorded.completeness) * Recorded.overall[2]
          /\ judge_reply[1].content = JudgeText("7", "0") =>
                /\ Recorded.accuracy = 5 /\ Recorded.completeness = 1
                /\ Recorded.overall[1] = 3 * Recorded.overall[2]

\* The judge wrote 7 and 0: recorded as 5 and 1 with an overall of 3.
C26_Witness ==
    /\ judge_reply # <<>> /\ judge_reply[1].content = JudgeText("7", "0")
    /\ transcript.metadata.scores # <<>>
    /\ Recorded.accuracy = 5 /\ Recorded.completeness = 1
    /\ Recorded.overall = <<6, 2>>
    /\ returned

\* The judge wrote scores in range: they are kept.
C26_WitnessInRange ==
    /\ judge_reply # <<>> /\ judge_reply[1].content = JudgeText("4", "5")
    /\ transcript.metadata.scores # <<>>
    /\ Recorded.accuracy = 4 /\ Recorded.completeness = 5
    /\ Recorded.overall = <<9, 2>>

\* ------------------------------------------------------------------------
\* Panels that name an alias more than once
\* ------------------------------------------------------------------------
\* the slots of the panel of the call that bear the alias of slot i
SlotsOf(i) == {j \in 1..Len(PanelOfCall) : PanelOfCall[j] = PanelOfCall[i]}

Duplicated(i) == Cardinality(SlotsOf(i)) > 1

\* the greatest slot of the alias of slot i
LastSlotOf(i) == CHOOSE j \in SlotsOf(i) : \A k \in SlotsOf(i) : k <= j

\* C27: duplicate aliases in the panel are kept: every round holds one
\* response per panel slot, in panel order, and in a reflection round the
\* prompt of every slot of a duplicated alias takes as its own previous
\* response the response of the last slot of that alias in the previous
\* round (the placeholder when that response has an error).
C27_DuplicateAliases ==
    /\ (transcript # NoTranscript /\ args.op \in {"debate", "replay"}) =>
          \A k \in 1..Len(Rounds(transcript)) :
              (args.op = "debate" \/ k > round_offset) =>
                  /\ Len(Rounds(transcript)[k].responses) = Len(PanelOfCall)
                  /\ \A i \in 1..Len(PanelOfCall) :
                        Rounds(transcript)[k].responses[i].model_alias = PanelOfCall[i]
    /\ (pc = "round" /\ RoundType = "reflection") =>
          /\ Len(requests) = Len(PanelOfCall)
          /\ \A i \in 1..Len(requests) :
                (Duplicated(i) /\ Len(PreviousRound) = Len(PanelOfCall)) =>
                    /\ requests[i].model_alias = PanelOfCall[i]
                    /\ requests[i].prompt.own =
                          IF PreviousRound[LastSlotOf(i)].error = None
                          THEN PreviousRound[LastSlotOf(i)].content
                          ELSE Placeholder

\* A panel of claude twice, both replies of the initial round arrived: both
\* prompts of round 1 hold the reply of the second slot, and the round
\* before holds one response per slot.
C27_Witness ==
    /\ IsDebate /\ pc = "round" /\ round_num = 1
    /\ transcript.panel = <<"claude", "claude">>
    /\ Len(PreviousRound) = 2
    /\ PreviousRound[1].content = <<0, 1>> /\ PreviousRound[2].content = <<0, 2>>
    /\ requests[1].prompt.own = <<0, 2>>
    /\ requests[2].prompt.own = <<0, 2>>
    /\ requests[1].prompt.others = <<>>

\* The call of the second slot failed: both prompts hold the placeholder
\* although the first slot's reply arrived.
C27_WitnessLastFailed ==
    /\ IsDebate /\ pc = "round" /\ round_num = 1
    /\ transcript.panel = <<"claude", "claude">>
    /\ PreviousRound[1].error = None /\ PreviousRound[2].error # None
    /\ requests[1].prompt.own = Placeholder
    /\ requests[2].prompt.own = Placeholder

\* ------------------------------------------------------------------------
\* The page: what one debate leaves in the store
\* ------------------------------------------------------------------------
WebDebate == IsDebate /\ args.caller = "web"

\* the transcripts _handle_abort saved
SavedPartials == {n \in 1..Len(store) : store[n].metadata.aborted}

\* the transcripts saved after run_debate returned
SavedComplete == {n \in 1..Len(store) : ~store[n].metadata.aborted}

\* C29: a debate of the page persists exactly one transcript, the complete
\* one or the partial one of an abort, never both, whenever the abort
\* arrives: also when it arrives after run_debate returned and the complete
\* transcript was saved.
C29_OneTranscriptPerDebate ==
    WebDebate =>
        /\ Len(store) <= 1
        /\ (pc = "done" /\ (returned \/ Cancelled)) => Len(store) = 1
        /\ Cancelled => SavedComplete = {}

\* What holds of an abort that arrives before run_debate has returned: the
\* partial transcript is the only one saved.
C29_OneUnlessAbortedAfterSave ==
    (WebDebate /\ Len(store) > 1) =>
        /\ Len(store) = 2
        /\ Cancelled /\ cancelAt[1].pc = "post_render" /\ returned
        /\ ~store[1].metadata.aborted /\ store[2].metadata.aborted

\* The abort arrived while on_submit was scrolling after the save: the
\* store holds the complete transcript and an aborted copy of its rounds
\* under another ID.
C29_BothSaved ==
    /\ WebDebate /\ pc = "done" /\ returned /\ Cancelled
    /\ Len(store) = 2
    /\ store[1].synthesis # <<>> /\ ~store[1].metadata.aborted
    /\ store[2].synthesis = <<>> /\ store[2].metadata.aborted
    /\ store[2].rounds = store[1].rounds
    /\ store[2].transcript_id # store[1].transcript_id

\* ------------------------------------------------------------------------
\* Replay of whatever the store holds
\* ------------------------------------------------------------------------
\* C30: run_replay with 0 to 3 additional rounds on any stored transcript,
\* the partial transcript of a cancelled debate with no rounds and no
\* synthesis included, either returns a transcript holding the source's
\* rounds followed by the new rounds or is rejected with a bad-argument
\* error; no other exception leaves it.
C30_ReplayReturnsOrRejects ==
    (IsReplay /\ args.additional_rounds \in 0..MaxAdditionalRounds
     /\ ~TransportFailed) =>
        /\ raised \in {None, "ValueError"}
        /\ pc = "done" =>
              \/ raised = "ValueError" /\ ~returned
              \/ /\ returned /\ raised = None
                 /\ Len(Rounds(transcript)) =
                       Len(args.source_rounds) + args.additional_rounds
                 /\ SubSeq(Rounds(transcript), 1, Len(args.source_rounds)) =
                       args.source_rounds

\* What holds of every source that has a round, and of every source when no
\* round is added.
C30_ReplayOfNonEmptySource ==
    (IsReplay /\ args.additional_rounds \in 0..MaxAdditionalRounds
     /\ ~TransportFailed
     /\ (args.source_rounds # <<>> \/ args.additional_rounds = 0)) =>
        /\ raised = None
        /\ pc = "done" =>
              /\ returned
              /\ Len(Rounds(transcript)) =
                    Len(args.source_rounds) + args.additional_rounds
              /\ SubSeq(Rounds(transcript), 1, Len(args.source_rounds)) =
                    args.source_rounds

\* The replay of a cancelled transcript without rounds, with one additional
\* round, ended with an IndexError.
C30_InternalError ==
    /\ IsReplay /\ pc = "done" /\ ~returned
    /\ args.source_rounds = <<>> /\ args.source.metadata.aborted
    /\ args.additional_rounds = 1
    /\ raised = "IndexError"

====
